---- MODULE Spec2Model ----
(***************************************************************************)
(* Model of the OpenEnv proxy session for 0 A.D.                           *)
(*   src/openenv_zero_ad/environment.py  (ZeroADSession, helpers)          *)
(*   src/openenv_zero_ad/models.py       (action union, observation)       *)
(*   src/hannibal_api/rl_interface_client.py (RLInterfaceClient)           *)
(*   src/openenv_zero_ad/server.py       (create_app: routes, stream)      *)
(*                                                                         *)
(* Python values are modelled as follows.                                  *)
(*   Optional[T]     a sequence of length 0 (None) or 1 (the value)        *)
(*   JSON value      a one-field record: [null], [num], [bool], [str],     *)
(*                   [list], [dict]                                        *)
(*   str             a sequence of lexical units (a digit, a bracket, a    *)
(*                   quoted literal, a word, a blank)                      *)
(*   dict            a function from key names to JSON values              *)
(*                                                                         *)
(* Specifications: Spec (threads calling the session), FairSpec (Spec with *)
(* fair scheduling), SpecWs (one connection of the streaming channel),     *)
(* SpecHttp (the request/response routes), SpecRead (threads calling the   *)
(* session while the state is read) and SpecFn (the module-level functions *)
(* applied to drawn arguments).                                            *)
(***************************************************************************)
EXTENDS Integers, Sequences, FiniteSets, TLC

(***************************************************************************)
(* Bounds of the model.                                                    *)
(***************************************************************************)
NumThreads == 2

MaxSteps == 2

MaxTime == 1

Threads == 1..NumThreads

(***************************************************************************)
(* Optional values.                                                        *)
(***************************************************************************)
None == <<>>

Some(x) == <<x>>

IsNone(o) == Len(o) = 0

Val(o) == o[1]

(***************************************************************************)
(* JSON values.                                                            *)
(***************************************************************************)
JNull == [null |-> TRUE]

JNum(n) == [num |-> n]

JBool(b) == [bool |-> b]

JStr(s) == [str |-> s]

JList(l) == [list |-> l]

JDict(d) == [dict |-> d]

IsNull(v) == "null" \in DOMAIN v

IsNum(v) == "num" \in DOMAIN v

IsBool(v) == "bool" \in DOMAIN v

IsStr(v) == "str" \in DOMAIN v

IsList(v) == "list" \in DOMAIN v

IsDict(v) == "dict" \in DOMAIN v

\* dict.get(key): None (JSON null) when the key is absent.
Get(d, k) == IF k \in DOMAIN d THEN d[k] ELSE JNull

EmptyDict == [k \in {} |-> JNull]

(***************************************************************************)
(* json.loads on a string of lexical units.                                *)
(***************************************************************************)
Blank == " "

Digits == {"0", "1", "2", "3"}

DigitVal(c) == CASE c = "0" -> 0 [] c = "1" -> 1 [] c = "2" -> 2 [] c = "3" -> 3

StrLits ==
    {"\"ok\"", "\"a\"", "\"type\"", "\"data\"", "\"reset\"", "\"step\"", "\"state\"",
     "\"close\"", "\"bogus\"", "\"op\"", "\"evaluate\"", "\"push_command\"",
     "\"player_id\"", "\"cmd\"", "\"stop\"", "\"entity\"", "\"code\"", "\"1+1\"",
     "\"seed\"", "\"episode_id\"", "\"ep1\""}

Unquote(c) ==
    CASE c = "\"ok\"" -> "ok" [] c = "\"a\"" -> "a" [] c = "\"type\"" -> "type"
      [] c = "\"data\"" -> "data" [] c = "\"reset\"" -> "reset" [] c = "\"step\"" -> "step"
      [] c = "\"state\"" -> "state" [] c = "\"close\"" -> "close"
      [] c = "\"bogus\"" -> "bogus" [] c = "\"op\"" -> "op"
      [] c = "\"evaluate\"" -> "evaluate" [] c = "\"push_command\"" -> "push_command"
      [] c = "\"player_id\"" -> "player_id" [] c = "\"cmd\"" -> "cmd"
      [] c = "\"stop\"" -> "stop" [] c = "\"entity\"" -> "entity"
      [] c = "\"code\"" -> "code" [] c = "\"1+1\"" -> "1+1" [] c = "\"seed\"" -> "seed"
      [] c = "\"episode_id\"" -> "episode_id" [] c = "\"ep1\"" -> "ep1"

ParseFail == [ok |-> FALSE, val |-> JNull, next |-> 0]

ParseOk(v, n) == [ok |-> TRUE, val |-> v, next |-> n]

RECURSIVE SkipWs(_, _)
SkipWs(s, i) == IF i <= Len(s) /\ s[i] = Blank THEN SkipWs(s, i + 1) ELSE i

RECURSIVE ParseValue(_, _)
RECURSIVE ParseElems(_, _, _, _)
RECURSIVE ParseMembers(_, _, _, _)
\* One JSON value starting at unit i (leading blanks skipped).
ParseValue(s, i) ==
    LET j == SkipWs(s, i) IN
    IF j > Len(s) THEN ParseFail
    ELSE LET c == s[j] IN
         CASE c \in Digits -> ParseOk(JNum(DigitVal(c)), j + 1)
           [] c = "-" /\ j < Len(s) /\ s[j + 1] \in Digits ->
                  ParseOk(JNum(0 - DigitVal(s[j + 1])), j + 2)
           [] c = "true" -> ParseOk(JBool(TRUE), j + 1)
           [] c = "false" -> ParseOk(JBool(FALSE), j + 1)
           [] c = "null" -> ParseOk(JNull, j + 1)
           [] c \in StrLits -> ParseOk(JStr(<<Unquote(c)>>), j + 1)
           [] c = "[" -> ParseElems(s, j + 1, <<>>, TRUE)
           [] c = "{" -> ParseMembers(s, j + 1, EmptyDict, TRUE)
           [] OTHER -> ParseFail

\* The elements of an array, after "[" (first) or after "," (not first).
ParseElems(s, i, acc, first) ==
    LET j == SkipWs(s, i) IN
    IF j > Len(s) THEN ParseFail
    ELSE IF first /\ s[j] = "]" THEN ParseOk(JList(acc), j + 1)
    ELSE LET e == ParseValue(s, j) IN
         IF ~e.ok THEN ParseFail
         ELSE LET k == SkipWs(s, e.next) IN
              IF k > Len(s) THEN ParseFail
              ELSE IF s[k] = "]" THEN ParseOk(JList(Append(acc, e.val)), k + 1)
              ELSE IF s[k] = "," THEN ParseElems(s, k + 1, Append(acc, e.val), FALSE)
              ELSE ParseFail

\* The members of an object, after "{" (first) or after "," (not first).
ParseMembers(s, i, acc, first) ==
    LET j == SkipWs(s, i) IN
    IF j > Len(s) THEN ParseFail
    ELSE IF first /\ s[j] = "}" THEN ParseOk(JDict(acc), j + 1)
    ELSE IF s[j] \notin StrLits THEN ParseFail
    ELSE LET c == SkipWs(s, j + 1) IN
         IF c > Len(s) \/ s[c] # ":" THEN ParseFail
         ELSE LET e == ParseValue(s, c + 1) IN
              IF ~e.ok THEN ParseFail
              ELSE LET k == SkipWs(s, e.next)
                       d == (Unquote(s[j]) :> e.val) @@ acc
                   IN IF k > Len(s) THEN ParseFail
                      ELSE IF s[k] = "}" THEN ParseOk(JDict(d), k + 1)
                      ELSE IF s[k] = "," THEN ParseMembers(s, k + 1, d, FALSE)
                      ELSE ParseFail

\* json.loads(s): one value, then only blanks up to the end.
JsonLoads(s) ==
    LET r == ParseValue(s, 1) IN
    IF r.ok /\ SkipWs(s, r.next) > Len(s) THEN [ok |-> TRUE, val |-> r.val]
    ELSE [ok |-> FALSE, val |-> JNull]

RECURSIVE LStrip(_)
LStrip(s) == IF s # <<>> /\ Head(s) = Blank THEN LStrip(Tail(s)) ELSE s

RECURSIVE RStrip(_)
RStrip(s) ==
    IF s # <<>> /\ s[Len(s)] = Blank THEN RStrip(SubSeq(s, 1, Len(s) - 1)) ELSE s

\* str.strip()
Strip(s) == RStrip(LStrip(s))

\* Variant of NormalizeEvalResult: every string that parses is decoded.
NormalizeAnyJson(value) ==
    IF IsStr(value)
    THEN LET r == JsonLoads(Strip(value.str)) IN IF r.ok THEN r.val ELSE value
    ELSE value

\* Variant of NormalizeEvalResult: a bracketed string that does not parse loses
\* its brackets.
NormalizeUnwrapping(value) ==
    IF IsStr(value)
    THEN LET s == Strip(value.str) IN
         IF s = <<>> THEN value
         ELSE IF \/ (Head(s) = "{" /\ s[Len(s)] = "}")
                 \/ (Head(s) = "[" /\ s[Len(s)] = "]")
              THEN LET r == JsonLoads(s) IN
                   IF r.ok THEN r.val ELSE JStr(SubSeq(s, 2, Len(s) - 1))
              ELSE value
    ELSE value

\* _normalize_eval_result
NormalizeEvalResult(value) ==
    IF IsStr(value)
    THEN LET s == Strip(value.str) IN
         IF s = <<>> THEN value
         ELSE IF \/ (Head(s) = "{" /\ s[Len(s)] = "}")
                 \/ (Head(s) = "[" /\ s[Len(s)] = "]")
              THEN LET r == JsonLoads(s) IN IF r.ok THEN r.val ELSE value
              ELSE value
    ELSE value

(***************************************************************************)
(* Identifier extraction (environment.py, _extract_int_list and the scalar *)
(* fields of _validate_sim_command).                                       *)
(***************************************************************************)
\* Characters str.isdigit() accepts and int() does not read: "sup2" stands for
\* U+00B2, superscript two.
SuperDigits == {"sup2"}

\* str.isdigit()
IsDigitStr(s) == s # <<>> /\ \A i \in 1..Len(s) : s[i] \in Digits \cup SuperDigits

\* int(s) raises ValueError
IntRaises(s) == \E i \in 1..Len(s) : s[i] \notin Digits

RECURSIVE StrToInt(_)
\* int(s) of a digit string
StrToInt(s) ==
    IF s = <<>> THEN 0
    ELSE 10 * StrToInt(SubSeq(s, 1, Len(s) - 1)) + DigitVal(s[Len(s)])

\* One value read as an id: bool skipped, int kept, digit string converted.
ScalarId(v) ==
    IF IsBool(v) THEN <<>>
    ELSE IF IsNum(v) THEN <<v.num>>
    ELSE IF IsStr(v) /\ IsDigitStr(v.str) THEN <<StrToInt(v.str)>>
    ELSE <<>>

RECURSIVE ExtractElems(_)
ExtractElems(l) == IF l = <<>> THEN <<>> ELSE ScalarId(Head(l)) \o ExtractElems(Tail(l))

\* _extract_int_list
ExtractIntList(value) == IF IsList(value) THEN ExtractElems(value.list) ELSE <<>>

Range(f) == {f[i] : i \in DOMAIN f}

SetMin(S) == CHOOSE x \in S : \A y \in S : x <= y

RECURSIVE Sorted(_)
\* sorted(set)
Sorted(S) == IF S = {} THEN <<>> ELSE <<SetMin(S)>> \o Sorted(S \ {SetMin(S)})

\* owned_ids before deduplication
OwnedRaw(cmd) ==
    ExtractIntList(Get(cmd, "entities"))
        \o ScalarId(Get(cmd, "entity"))
        \o ScalarId(Get(cmd, "garrisonHolder"))
        \o ExtractIntList(Get(cmd, "garrisonHolders"))

\* owned_ids: deduplicated, positive, sorted
OwnedIds(cmd) == Sorted({i \in Range(OwnedRaw(cmd)) : i > 0})

\* must_exist_ids: deduplicated, positive, sorted
MustExistIds(cmd) == Sorted({i \in Range(ScalarId(Get(cmd, "target"))) : i > 0})

\* Reading v as an id ends in the ValueError of int(v).
ScalarRaises(v) == IsStr(v) /\ IsDigitStr(v.str) /\ IntRaises(v.str)

ListRaises(value) ==
    IsList(value) /\ \E i \in DOMAIN value.list : ScalarRaises(value.list[i])

\* The collection of ids of _validate_sim_command ends in a ValueError.
CollectRaises(cmd) ==
    \/ ListRaises(Get(cmd, "entities"))
    \/ ScalarRaises(Get(cmd, "target"))
    \/ ScalarRaises(Get(cmd, "entity"))
    \/ ScalarRaises(Get(cmd, "garrisonHolder"))
    \/ ListRaises(Get(cmd, "garrisonHolders"))

\* Variant of CollectIds: ids are kept in the order met, duplicates included.
CollectIdsRaw(cmd) ==
    IF CollectRaises(cmd) THEN [raise |-> "ValueError"]
    ELSE [owned |-> SelectSeq(OwnedRaw(cmd), LAMBDA i : i > 0),
          exist |-> MustExistIds(cmd)]

\* _validate_sim_command up to the deduplication: the two id lists, or the
\* exception that ends the collection.
CollectIds(cmd) ==
    IF CollectRaises(cmd) THEN [raise |-> "ValueError"]
    ELSE [owned |-> OwnedIds(cmd), exist |-> MustExistIds(cmd)]

\* isinstance(v, (int, float)); bool is a subclass of int
IsNumeric(v) == IsNum(v) \/ IsBool(v)

(***************************************************************************)
(* Error strings, as the sequence of their pieces.                         *)
(***************************************************************************)
Lit(s) == [lit |-> s]

Exc(m) == [exc |-> m]

ErrWalkEntities == <<Lit("walk requires non-empty 'entities'")>>

ErrWalkXZ == <<Lit("walk requires numeric 'x' and 'z'")>>

\* Variant of ErrValidationFailed: the cause is left out.
ErrValidationFailedBare(m) == <<Lit("validation_failed")>>

ErrValidationFailed(m) == <<Lit("validation_failed: "), Exc(m)>>

ErrUnreachable(m) == <<Lit("rl_interface_unreachable: "), Exc(m)>>

\* Variant of ErrStr: a fixed text instead of the exception's message.
ErrStrFixed(m) == <<Lit("error")>>

\* str(e)
ErrStr(m) == <<Exc(m)>>

\* The type-specific checks of _validate_sim_command (no engine request).
WalkCheck(cmd) ==
    IF Get(cmd, "type") = JStr(<<"walk">>)
    THEN IF OwnedIds(cmd) = <<>> THEN Some(ErrWalkEntities)
         ELSE IF ~IsNumeric(Get(cmd, "x")) \/ ~IsNumeric(Get(cmd, "z"))
              THEN Some(ErrWalkXZ)
              ELSE None
    ELSE None

\* Whether _validate_sim_command goes on to ask the engine.
NeedsRoundTrip(cmd) ==
    /\ IsNone(WalkCheck(cmd))
    /\ ~(OwnedIds(cmd) = <<>> /\ MustExistIds(cmd) = <<>>)

(***************************************************************************)
(* The ownership check evaluated by the engine (the JavaScript sent by     *)
(* _validate_sim_command). w gives, for every id, whether the entity has   *)
(* an ownership component, its owner, and whether it has another component.*)
(***************************************************************************)
RECURSIVE OwnedMissing(_, _)
OwnedMissing(ids, w) ==
    IF ids = <<>> THEN <<>>
    ELSE (IF ~w[Head(ids)].own THEN <<JNum(Head(ids))>> ELSE <<>>)
             \o OwnedMissing(Tail(ids), w)

RECURSIVE WrongOwner(_, _, _)
WrongOwner(playerId, ids, w) ==
    IF ids = <<>> THEN <<>>
    ELSE (IF w[Head(ids)].own /\ w[Head(ids)].owner # playerId
          THEN <<JDict([id |-> JNum(Head(ids)), owner |-> JNum(w[Head(ids)].owner)])>>
          ELSE <<>>)
             \o WrongOwner(playerId, Tail(ids), w)

RECURSIVE ExistMissing(_, _)
ExistMissing(ids, w) ==
    IF ids = <<>> THEN <<>>
    ELSE (IF ~(w[Head(ids)].own \/ w[Head(ids)].other) THEN <<JNum(Head(ids))>> ELSE <<>>)
             \o ExistMissing(Tail(ids), w)

\* Variant of ValidateJS: the owner of an owned id is not compared.
ValidateJSAnyOwner(playerId, ownedIds, existIds, w) ==
    LET missing == OwnedMissing(ownedIds, w) \o ExistMissing(existIds, w)
    IN IF missing # <<>>
       THEN JDict([ok |-> JBool(FALSE), missing |-> JList(missing),
                   wrongOwner |-> JList(<<>>)])
       ELSE JDict([ok |-> JBool(TRUE)])

ValidateJS(playerId, ownedIds, existIds, w) ==
    LET missing == OwnedMissing(ownedIds, w) \o ExistMissing(existIds, w)
        wrong == WrongOwner(playerId, ownedIds, w)
    IN IF missing # <<>> \/ wrong # <<>>
       THEN JDict([ok |-> JBool(FALSE), missing |-> JList(missing),
                   wrongOwner |-> JList(wrong)])
       ELSE JDict([ok |-> JBool(TRUE)])

\* Variant of ValidateReply: every reply passes.
ValidateReplyOpen(out) == None

\* A reading of the reply that passes only a map with ok = true.
ValidateReplyStrict(out) ==
    IF IsDict(out) /\ Get(out.dict, "ok") = JBool(TRUE)
    THEN None
    ELSE Some(<<Lit("invalid_entity_ids: ")>>)

\* The reading of the (normalized) reply: an error string, or None.
ValidateReply(out) ==
    IF IsDict(out) /\ Get(out.dict, "ok") = JBool(FALSE)
    THEN LET missing == Get(out.dict, "missing")
             wrong == Get(out.dict, "wrongOwner")
             p1 == IF IsList(missing) /\ missing.list # <<>>
                   THEN <<[missing |-> missing.list]>> ELSE <<>>
             p2 == IF IsList(wrong) /\ wrong.list # <<>>
                   THEN <<[wrongOwner |-> wrong.list]>> ELSE <<>>
         IN Some(<<Lit("invalid_entity_ids: ")>> \o p1 \o p2)
    ELSE None

(***************************************************************************)
(* The action union (models.py): decoding of an action dict.               *)
(***************************************************************************)
DecodeFail == [ok |-> FALSE]

\* Variant of Decode: player_id is not bounded below.
DecodeNoBound(ad) ==
    IF "op" \notin DOMAIN ad THEN DecodeFail
    ELSE IF ad.op = "push_command"
    THEN IF DOMAIN ad = {"op", "player_id", "cmd"}
         THEN [ok |-> TRUE,
               action |-> [op |-> "push_command", player_id |-> ad.player_id,
                           cmd |-> ad.cmd]]
         ELSE DecodeFail
    ELSE IF ad.op = "evaluate"
    THEN IF DOMAIN ad = {"op", "code"} /\ Len(ad.code) >= 1
         THEN [ok |-> TRUE, action |-> [op |-> "evaluate", code |-> ad.code]]
         ELSE DecodeFail
    ELSE DecodeFail

Decode(ad) ==
    IF "op" \notin DOMAIN ad THEN DecodeFail
    ELSE IF ad.op = "push_command"
    THEN IF /\ DOMAIN ad = {"op", "player_id", "cmd"}
            /\ ad.player_id >= 0
         THEN [ok |-> TRUE,
               action |-> [op |-> "push_command", player_id |-> ad.player_id,
                           cmd |-> ad.cmd]]
         ELSE DecodeFail
    ELSE IF ad.op = "evaluate"
    THEN IF /\ DOMAIN ad = {"op", "code"}
            /\ Len(ad.code) >= 1
         THEN [ok |-> TRUE, action |-> [op |-> "evaluate", code |-> ad.code]]
         ELSE DecodeFail
    ELSE DecodeFail

(***************************************************************************)
(* Inputs: commands, action dicts, reset arguments, engine replies.        *)
(***************************************************************************)
Walk == JStr(<<"walk">>)

CmdWalk == [type |-> Walk, entities |-> JList(<<JNum(1)>>), x |-> JNum(1), z |-> JNum(2)]

CmdWalkEmpty == [type |-> Walk, entities |-> JList(<<>>), x |-> JNum(1), z |-> JNum(2)]

CmdWalkAbsent == [type |-> Walk, x |-> JNum(1), z |-> JNum(2), target |-> JNum(3)]

CmdWalkEntity ==
    [type |-> Walk, entities |-> JList(<<>>), entity |-> JNum(1), x |-> JNum(1),
     z |-> JNum(2)]

CmdWalkFiltered ==
    [type |-> Walk, entities |-> JList(<<JBool(TRUE), JNum(0), JStr(<<"x">>)>>),
     x |-> JNum(1), z |-> JNum(2)]

CmdWalkNoZ == [type |-> Walk, entities |-> JList(<<JStr(<<"2">>)>>), x |-> JNum(1)]

CmdGather ==
    [type |-> JStr(<<"gather">>), entities |-> JList(<<JNum(2), JNum(1), JNum(2)>>),
     target |-> JNum(3)]

CmdGarrison ==
    [type |-> JStr(<<"garrison">>), entities |-> JList(<<JNum(1)>>),
     garrisonHolder |-> JStr(<<"0", "2">>)]

CmdStop == [type |-> JStr(<<"stop">>)]

Cmds ==
    {CmdWalk, CmdWalkEmpty, CmdWalkAbsent, CmdWalkEntity, CmdWalkFiltered, CmdWalkNoZ,
     CmdGather, CmdGarrison, CmdStop}

Code == <<"1+1">>

ValidActionDicts ==
    {[op |-> "push_command", player_id |-> 1, cmd |-> c] : c \in Cmds}
        \cup {[op |-> "push_command", player_id |-> 2, cmd |-> CmdWalk],
              [op |-> "evaluate", code |-> Code]}

InvalidActionDicts ==
    {[op |-> "noop"],
     [code |-> Code],
     [op |-> "evaluate"],
     [op |-> "evaluate", code |-> <<>>],
     [op |-> "evaluate", code |-> Code, extra |-> JNull],
     [op |-> "push_command", player_id |-> 1],
     [op |-> "push_command", player_id |-> 0 - 1, cmd |-> CmdWalk]}

ActionDicts == ValidActionDicts \cup InvalidActionDicts

Seeds == {None, Some(7)}

EpisodeArgs == {None, Some(""), Some("ep1")}

\* a value uuid.uuid4() may produce
UUIDs == {"u1"}

\* messages of the exceptions raised by RLInterfaceClient._post / json.loads
ExcMsgs == {"connection refused", "timed out"}

\* The engine's reply to one request: an exception, or the decoded JSON body.
Raise(m) == [raise |-> m]

Reply(v) == [val |-> v]

IsRaise(o) == "raise" \in DOMAIN o

Outcomes(vals) == {Raise(m) : m \in ExcMsgs} \cup {Reply(v) : v \in vals}

PingValues == {JNum(2)}

JsonOkTrue == <<"{", "\"ok\"", ":", "true", "}">>

JsonOkFalse == <<"{", "\"ok\"", ":", "false", "}">>

\* push_command's script returns JSON.stringify({ok:true})
PushValues == {JStr(JsonOkTrue)}

EvalValues == {JNum(2), JNull, JStr(JsonOkTrue), JStr(<<"not json">>)}

TimeValues(now) ==
    {JDict([time |-> JNum(now)]), JDict([error |-> JStr(<<"no IID_Timer">>)])}

\* What the engine knows of one entity id.
EntStatus ==
    {[own |-> FALSE, owner |-> 0, other |-> FALSE],
     [own |-> FALSE, owner |-> 0, other |-> TRUE],
     [own |-> TRUE, owner |-> 1, other |-> TRUE],
     [own |-> TRUE, owner |-> 2, other |-> TRUE]}

\* Replies to the ownership check: the script's result in some world, or a
\* body of another shape.
ValidateValues(playerId, ownedIds, existIds) ==
    {ValidateJS(playerId, ownedIds, existIds, w) :
        w \in [Range(ownedIds) \cup Range(existIds) -> EntStatus]}
        \cup {JNull, JDict([error |-> JStr(<<"no engine">>)]), JStr(JsonOkFalse)}

(***************************************************************************)
(* State.                                                                  *)
(***************************************************************************)
VARIABLES
    state,      \* ZeroADSession._state: episode_id, step_count, last_sim_time, stepper_detected
    lock,       \* ZeroADSession._lock: 0 when free, else the holding thread
    pc,         \* position of every calling thread
    loc,        \* local variables of the call in progress in every thread
    sent,       \* engine requests issued by the call in progress, in order
    ret,        \* what the call hands to its caller: an observation or an exception
    simTime,    \* the engine's clock
    okLog,      \* step_count of the ok=true step observations since the last reset
    incs,       \* number of executions of "step_count += 1" since the last reset
    ws,         \* one connection of the streaming channel (websocket_endpoint)
    fn,         \* one application of a module-level function: argument and results
    http        \* the request/response routes (create_app): the request being served

vars == <<state, lock, pc, loc, sent, ret, simTime, okLog, incs, ws, fn, http>>

State0 ==
    [episode_id |-> None, step_count |-> 0, last_sim_time |-> None,
     stepper_detected |-> None]

\* Locals of a call (t is the reading of step's clock refresh). call, pre and
\* exc are kept for the statement of properties: which method runs, the session
\* state when it took the lock, and the message of the exception the forward
\* raised.
Loc0 ==
    [call |-> "", seed |-> None, episode_id |-> None, action_dict |-> None,
     action |-> None, ping |-> None, t1 |-> None, t2 |-> None, result |-> None,
     out |-> None, cnt |-> 0, t |-> None, pre |-> State0, exc |-> None,
     timeout_s |-> None]

\* ZeroADObservation(...).model_dump(mode="json")
Observation(ok, result, error, episode_id, step_count, stepper_detected, sim_time) ==
    [ok |-> ok, result |-> result, error |-> error, episode_id |-> episode_id,
     step_count |-> step_count, stepper_detected |-> stepper_detected,
     sim_time |-> sim_time]

\* The observation of a step, filled from the session state.
StepObservation(ok, result, error, st) ==
    Observation(ok, result, error, st.episode_id, st.step_count,
                st.stepper_detected, st.last_sim_time)

Returned(o) == Some([obs |-> o])

Raised(m) == Some([raise |-> m])

\* ZeroADSession.__init__
\* The connection after websocket.accept(): about to read a frame. hist keeps,
\* for the statement of properties, every frame read with the replies sent for it;
\* end tells how the loop ended.
Ws0 == [pc |-> "recv", raw |-> None, msg |-> None, req |-> None, end |-> "", hist |-> <<>>]

\* The request/response routes with no request read yet. hist keeps every
\* request served with its response; left keeps, for the statement of
\* properties about reads of the state, the episode ids that the constructor
\* and the completed calls of other threads have left in the state.
Http0 == [pc |-> "recv", args |-> None, hist |-> <<>>, left |-> {State0.episode_id}]

\* No function is being applied on its own.
Fn0 == [op |-> "", arg |-> None, out |-> None, again |-> None]

\* The session after ZeroADSession.__init__, no call in progress.
InitSession ==
    /\ state = State0
    /\ lock = 0
    /\ pc = [t \in Threads |-> "idle"]
    /\ loc = [t \in Threads |-> Loc0]
    /\ sent = [t \in Threads |-> <<>>]
    /\ ret = [t \in Threads |-> None]
    /\ simTime = 0
    /\ okLog = <<>>
    /\ incs = 0
    /\ ws = Ws0
    /\ http = Http0

Init ==
    /\ InitSession
    /\ fn = Fn0

\* _get_sim_time's reading of the engine's reply
SimTimeOf(reply) ==
    LET out == NormalizeEvalResult(reply) IN
    IF IsDict(out) /\ IsNum(Get(out.dict, "time"))
    THEN Some(Get(out.dict, "time").num)
    ELSE IF IsDict(out) /\ IsBool(Get(out.dict, "time"))
    THEN Some(IF Get(out.dict, "time").bool THEN 1 ELSE 0)
    ELSE None

\* Variant of LockFree: the lock is not consulted.
LockIgnored(t) == TRUE

\* threading.Lock.acquire
LockFree(t) == lock = 0

\* An external stepper advances the engine's clock.
EngineTick ==
    /\ simTime < MaxTime
    /\ simTime' = simTime + 1
    /\ UNCHANGED <<state, lock, pc, loc, sent, ret, okLog, incs, ws, fn, http>>

(***************************************************************************)
(* Engine requests, as recorded in sent.                                   *)
(***************************************************************************)
ReqEvaluate(code) == [method |-> "evaluate", route |-> "evaluate", code |-> code]

ReqSimTime == ReqEvaluate(<<"sim_time_script">>)

ReqValidate(playerId, ownedIds, existIds) ==
    [method |-> "evaluate", route |-> "evaluate", code |-> <<"validate_script">>,
     player_id |-> playerId, ownedIds |-> ownedIds, existIds |-> existIds]

\* Variant of ReqPush: the command is applied through the step route.
ReqPushStep(playerId, cmd) ==
    [method |-> "step", route |-> "step", player_id |-> playerId, cmd |-> cmd]

\* RLInterfaceClient.push_command: a script run over the evaluate route
ReqPush(playerId, cmd) ==
    [method |-> "push_command", route |-> "evaluate", player_id |-> playerId,
     cmd |-> cmd]

Goto(t, p) == pc' = [pc EXCEPT ![t] = p]

Send(t, req) == sent' = [sent EXCEPT ![t] = Append(@, req)]

(***************************************************************************)
(* ZeroADSession.reset                                                     *)
(***************************************************************************)
CallReset(t) ==
    /\ pc[t] = "idle"
    /\ Goto(t, "r_lock")
    /\ UNCHANGED <<state, lock, loc, sent, ret, simTime, okLog, incs, ws, fn, http>>

\* What is remembered of the state a reset starts from: the liveness fields
\* (episode_id and step_count are overwritten on every path).
PreOfReset(st) == [st EXCEPT !.episode_id = None, !.step_count = 0]

\* reset(seed, episode_id) up to: with self._lock:
ResetAcquireWith(t, seed, ep) ==
    /\ pc[t] = "r_lock"
    /\ LockFree(t)
    /\ lock' = t
    /\ loc' = [loc EXCEPT ![t] = [Loc0 EXCEPT !.call = "reset", !.seed = seed,
                                              !.episode_id = ep,
                                              !.pre = PreOfReset(state)]]
    /\ Goto(t, "r_episode")
    /\ UNCHANGED <<state, sent, ret, simTime, okLog, incs, ws, fn, http>>

\* A direct caller's reset, with any arguments.
ResetAcquire(t) == \E seed \in Seeds, ep \in EpisodeArgs : ResetAcquireWith(t, seed, ep)

\* episode_id or str(uuid.uuid4())
EpisodeOr(arg, u) == IF ~IsNone(arg) /\ Val(arg) # "" THEN Val(arg) ELSE u

ResetSetEpisode(t) ==
    /\ pc[t] = "r_episode"
    /\ \E u \in UUIDs :
          state' = [state EXCEPT !.episode_id = Some(EpisodeOr(loc[t].episode_id, u))]
    /\ Goto(t, "r_count")
    /\ UNCHANGED <<lock, loc, sent, ret, simTime, okLog, incs, ws, fn, http>>

\* Variant of ResetSetCount: step_count is left as it is.
ResetSetCountKeep(t) ==
    /\ pc[t] = "r_count"
    /\ okLog' = <<>>
    /\ incs' = 0
    /\ Goto(t, "r_ping")
    /\ UNCHANGED <<state, lock, loc, sent, ret, simTime, ws, fn, http>>

ResetSetCount(t) ==
    /\ pc[t] = "r_count"
    /\ state' = [state EXCEPT !.step_count = 0]
    /\ okLog' = <<>>
    /\ incs' = 0
    /\ Goto(t, "r_ping")
    /\ UNCHANGED <<lock, loc, sent, ret, simTime, ws, fn, http>>

\* Variant of ResetPingSend: a given seed is handed to the engine with the probe.
ResetPingSendSeeded(t) ==
    /\ pc[t] = "r_ping"
    /\ Send(t, IF IsNone(loc[t].seed) THEN ReqEvaluate(<<"1+1">>)
               ELSE ReqEvaluate(<<"seed", Val(loc[t].seed)>>))
    /\ Goto(t, "r_ping_wait")
    /\ UNCHANGED <<state, lock, loc, ret, simTime, okLog, incs, ws, fn, http>>

\* ping = self.rl.evaluate("1+1")
ResetPingSend(t) ==
    /\ pc[t] = "r_ping"
    /\ Send(t, ReqEvaluate(<<"1+1">>))
    /\ Goto(t, "r_ping_wait")
    /\ UNCHANGED <<state, lock, loc, ret, simTime, okLog, incs, ws, fn, http>>

\* Variant of ResetPingRecv: a failed probe clears the liveness fields.
ResetPingRecvClearing(t) ==
    /\ pc[t] = "r_ping_wait"
    /\ \E o \in Outcomes(PingValues) :
          IF IsRaise(o)
          THEN /\ ret' = [ret EXCEPT ![t] =
                            Returned(Observation(FALSE, JNull,
                                                 Some(ErrUnreachable(o.raise)),
                                                 state.episode_id, state.step_count,
                                                 None, None))]
               /\ state' = [state EXCEPT !.last_sim_time = None,
                                         !.stepper_detected = None]
               /\ Goto(t, "ret")
               /\ UNCHANGED loc
          ELSE /\ loc' = [loc EXCEPT ![t].ping = Some(NormalizeEvalResult(o.val))]
               /\ Goto(t, "r_t1")
               /\ UNCHANGED <<state, ret>>
    /\ UNCHANGED <<lock, sent, simTime, okLog, incs, ws, fn, http>>

ResetPingRecv(t) ==
    /\ pc[t] = "r_ping_wait"
    /\ \E o \in Outcomes(PingValues) :
          IF IsRaise(o)
          THEN /\ ret' = [ret EXCEPT ![t] =
                            Returned(Observation(FALSE, JNull,
                                                 Some(ErrUnreachable(o.raise)),
                                                 state.episode_id, state.step_count,
                                                 None, None))]
               /\ Goto(t, "ret")
               /\ UNCHANGED loc
          ELSE /\ loc' = [loc EXCEPT ![t].ping = Some(NormalizeEvalResult(o.val))]
               /\ Goto(t, "r_t1")
               /\ UNCHANGED ret
    /\ UNCHANGED <<state, lock, sent, simTime, okLog, incs, ws, fn, http>>

ResetT1Send(t) ==
    /\ pc[t] = "r_t1"
    /\ Send(t, ReqSimTime)
    /\ Goto(t, "r_t1_wait")
    /\ UNCHANGED <<state, lock, loc, ret, simTime, okLog, incs, ws, fn, http>>

ResetT1Recv(t) ==
    /\ pc[t] = "r_t1_wait"
    /\ \E o \in Outcomes(TimeValues(simTime)) :
          IF IsRaise(o)
          THEN /\ ret' = [ret EXCEPT ![t] = Raised(o.raise)]
               /\ Goto(t, "ret")
               /\ UNCHANGED loc
          ELSE /\ loc' = [loc EXCEPT ![t].t1 = SimTimeOf(o.val)]
               /\ Goto(t, "r_t2")
               /\ UNCHANGED ret
    /\ UNCHANGED <<state, lock, sent, simTime, okLog, incs, ws, fn, http>>

\* after time.sleep(0.05)
ResetT2Send(t) ==
    /\ pc[t] = "r_t2"
    /\ Send(t, ReqSimTime)
    /\ Goto(t, "r_t2_wait")
    /\ UNCHANGED <<state, lock, loc, ret, simTime, okLog, incs, ws, fn, http>>

ResetT2Recv(t) ==
    /\ pc[t] = "r_t2_wait"
    /\ \E o \in Outcomes(TimeValues(simTime)) :
          IF IsRaise(o)
          THEN /\ ret' = [ret EXCEPT ![t] = Raised(o.raise)]
               /\ Goto(t, "ret")
               /\ UNCHANGED loc
          ELSE /\ loc' = [loc EXCEPT ![t].t2 = SimTimeOf(o.val)]
               /\ Goto(t, "r_last")
               /\ UNCHANGED ret
    /\ UNCHANGED <<state, lock, sent, simTime, okLog, incs, ws, fn, http>>

\* Variant of StepperDetected: a clock that stood still counts as stepping.
StepperDetectedGeq(t1, t2) ==
    IF IsNone(t1) \/ IsNone(t2) THEN None ELSE Some(Val(t2) >= Val(t1))

StepperDetected(t1, t2) ==
    IF IsNone(t1) \/ IsNone(t2) THEN None ELSE Some(Val(t2) > Val(t1))

ResetSetLast(t) ==
    /\ pc[t] = "r_last"
    /\ state' = [state EXCEPT !.last_sim_time =
                    IF ~IsNone(loc[t].t2) THEN loc[t].t2 ELSE loc[t].t1]
    /\ Goto(t, "r_stepper")
    /\ UNCHANGED <<lock, loc, sent, ret, simTime, okLog, incs, ws, fn, http>>

SeedJson(seed) == IF IsNone(seed) THEN JNull ELSE JNum(Val(seed))

ResetSetStepper(t) ==
    /\ pc[t] = "r_stepper"
    /\ LET sd == StepperDetected(loc[t].t1, loc[t].t2) IN
         /\ state' = [state EXCEPT !.stepper_detected = sd]
         /\ ret' = [ret EXCEPT ![t] =
                      Returned(Observation(TRUE,
                                           JDict([ping |-> Val(loc[t].ping),
                                                  seed |-> SeedJson(loc[t].seed)]),
                                           None, state.episode_id, state.step_count,
                                           sd, state.last_sim_time))]
    /\ Goto(t, "ret")
    /\ UNCHANGED <<lock, loc, sent, simTime, okLog, incs, ws, fn, http>>

\* Leaving the with block (by return or by exception) releases the lock and
\* hands the result to the caller.
\* Variant of Leave: a call that ends by an exception keeps the lock.
LeaveHolding(t) ==
    /\ pc[t] = "ret"
    /\ lock' = IF lock = t /\ "obs" \in DOMAIN Val(ret[t]) THEN 0 ELSE lock
    /\ Goto(t, "idle")
    /\ loc' = [loc EXCEPT ![t] = Loc0]
    /\ sent' = [sent EXCEPT ![t] = <<>>]
    /\ ret' = [ret EXCEPT ![t] = None]
    /\ UNCHANGED <<state, simTime, okLog, incs, fn>>

Leave(t) ==
    /\ pc[t] = "ret"
    /\ lock' = IF lock = t THEN 0 ELSE lock
    /\ Goto(t, "idle")
    /\ loc' = [loc EXCEPT ![t] = Loc0]
    /\ sent' = [sent EXCEPT ![t] = <<>>]
    /\ ret' = [ret EXCEPT ![t] = None]
    /\ UNCHANGED <<state, simTime, okLog, incs, fn>>

\* A direct caller receives the result.
Return(t) == Leave(t) /\ UNCHANGED <<ws, http>>

(***************************************************************************)
(* ZeroADSession.step                                                      *)
(***************************************************************************)
\* Threads inside step that have not yet written step_count.
PendingSteps ==
    {u \in Threads : pc[u] \in {"s_lock", "s_decode", "s_validate", "s_val_wait",
                                 "s_push", "s_eval", "s_fwd_wait", "s_inc",
                                 "s_inc_write"}}

\* (the model stops calling step when step_count could pass MaxSteps)
CallStep(t) ==
    /\ pc[t] = "idle"
    /\ state.step_count + Cardinality(PendingSteps) < MaxSteps
    /\ Goto(t, "s_lock")
    /\ UNCHANGED <<state, lock, loc, sent, ret, simTime, okLog, incs, ws, fn, http>>

\* step(action_dict, timeout_s) up to: with self._lock:
StepAcquireWith(t, timeout_s) ==
    /\ pc[t] = "s_lock"
    /\ LockFree(t)
    /\ lock' = t
    /\ loc' = [loc EXCEPT ![t] = [Loc0 EXCEPT !.call = "step", !.pre = state,
                                              !.timeout_s = timeout_s]]
    /\ Goto(t, "s_decode")
    /\ UNCHANGED <<state, sent, ret, simTime, okLog, incs, ws, fn, http>>

\* A caller that passes no timeout_s (the default None).
StepAcquire(t) == StepAcquireWith(t, None)

\* Variant of StepDecodeWith: a session that was never reset refuses the step.
StepDecodeNeedingReset(t, ad) ==
    /\ pc[t] = "s_decode"
    /\ LET d == Decode(ad) IN
          IF ~d.ok
          THEN /\ ret' = [ret EXCEPT ![t] = Raised("ValidationError")]
               /\ Goto(t, "ret")
               /\ loc' = [loc EXCEPT ![t].action_dict = Some(ad)]
          ELSE /\ loc' = [loc EXCEPT ![t].action_dict = Some(ad),
                                     ![t].action = Some(d.action)]
               /\ IF IsNone(state.episode_id)
                  THEN /\ ret' = [ret EXCEPT ![t] = Raised("no episode")]
                       /\ Goto(t, "ret")
                  ELSE /\ Goto(t, IF d.action.op = "push_command" THEN "s_validate"
                                                                   ELSE "s_eval")
                       /\ UNCHANGED ret
    /\ UNCHANGED <<state, lock, sent, simTime, okLog, incs, ws, fn, http>>

\* _ACTION_ADAPTER.validate_python(action_dict); a ValidationError leaves the
\* with block.
StepDecodeWith(t, ad) ==
    /\ pc[t] = "s_decode"
    /\ LET d == Decode(ad) IN
          IF ~d.ok
          THEN /\ ret' = [ret EXCEPT ![t] = Raised("ValidationError")]
               /\ Goto(t, "ret")
               /\ loc' = [loc EXCEPT ![t].action_dict = Some(ad)]
          ELSE /\ loc' = [loc EXCEPT ![t].action_dict = Some(ad),
                                     ![t].action = Some(d.action)]
               /\ Goto(t, IF d.action.op = "push_command" THEN "s_validate" ELSE "s_eval")
               /\ UNCHANGED ret
    /\ UNCHANGED <<state, lock, sent, simTime, okLog, incs, ws, fn, http>>

\* A direct caller's step, with any action dict.
StepDecode(t) == \E ad \in ActionDicts : StepDecodeWith(t, ad)

\* Variant of Failed: the failed observation carries a result.
FailedWithResult(t, err) ==
    ret' = [ret EXCEPT ![t] = Returned(StepObservation(FALSE, JNum(0), Some(err), state))]

\* The ok=false observation of step (both places that build one).
Failed(t, err) ==
    ret' = [ret EXCEPT ![t] = Returned(StepObservation(FALSE, JNull, Some(err), state))]

\* Variant of StepValidate: the request names the owned ids only.
StepValidateOwnedOnly(t) ==
    /\ pc[t] = "s_validate"
    /\ LET a == Val(loc[t].action) IN
         IF CollectRaises(a.cmd)
         THEN /\ Failed(t, ErrStr("ValueError"))
              /\ Goto(t, "ret")
              /\ UNCHANGED sent
         ELSE IF ~IsNone(WalkCheck(a.cmd))
         THEN /\ Failed(t, Val(WalkCheck(a.cmd)))
              /\ Goto(t, "ret")
              /\ UNCHANGED sent
         ELSE IF ~NeedsRoundTrip(a.cmd)
         THEN /\ Goto(t, "s_push")
              /\ UNCHANGED <<ret, sent>>
         ELSE /\ Send(t, ReqValidate(a.player_id, OwnedIds(a.cmd), <<>>))
              /\ Goto(t, "s_val_wait")
              /\ UNCHANGED ret
    /\ UNCHANGED <<state, lock, loc, simTime, okLog, incs, ws, fn, http>>

\* _validate_sim_command up to its engine request. A ValueError of the id
\* collection is caught by step's "except Exception" (no command of Cmds
\* raises one).
StepValidate(t) ==
    /\ pc[t] = "s_validate"
    /\ LET a == Val(loc[t].action) IN
         IF CollectRaises(a.cmd)
         THEN /\ Failed(t, ErrStr("ValueError"))
              /\ Goto(t, "ret")
              /\ UNCHANGED sent
         ELSE IF ~IsNone(WalkCheck(a.cmd))
         THEN /\ Failed(t, Val(WalkCheck(a.cmd)))
              /\ Goto(t, "ret")
              /\ UNCHANGED sent
         ELSE IF ~NeedsRoundTrip(a.cmd)
         THEN /\ Goto(t, "s_push")
              /\ UNCHANGED <<ret, sent>>
         ELSE /\ Send(t, ReqValidate(a.player_id, OwnedIds(a.cmd), MustExistIds(a.cmd)))
              /\ Goto(t, "s_val_wait")
              /\ UNCHANGED ret
    /\ UNCHANGED <<state, lock, loc, simTime, okLog, incs, ws, fn, http>>

\* _validate_sim_command from the engine's reply on, and step's "if err".
StepValidateRecv(t) ==
    /\ pc[t] = "s_val_wait"
    /\ LET a == Val(loc[t].action) IN
       \E o \in Outcomes(ValidateValues(a.player_id, OwnedIds(a.cmd), MustExistIds(a.cmd))) :
          IF IsRaise(o)
          THEN /\ Failed(t, ErrValidationFailed(o.raise))
               /\ Goto(t, "ret")
               /\ UNCHANGED loc
          ELSE LET out == NormalizeEvalResult(o.val)
                   err == ValidateReply(out)
               IN /\ loc' = [loc EXCEPT ![t].out = Some(out)]
                  /\ IF ~IsNone(err)
                     THEN Failed(t, Val(err)) /\ Goto(t, "ret")
                     ELSE Goto(t, "s_push") /\ UNCHANGED ret
    /\ UNCHANGED <<state, lock, sent, simTime, okLog, incs, ws, fn, http>>

\* self.rl.push_command(action.player_id, action.cmd)
StepPushSend(t) ==
    /\ pc[t] = "s_push"
    /\ Send(t, ReqPush(Val(loc[t].action).player_id, Val(loc[t].action).cmd))
    /\ Goto(t, "s_fwd_wait")
    /\ UNCHANGED <<state, lock, loc, ret, simTime, okLog, incs, ws, fn, http>>

\* Variant of StepEvalSend: the ownership check is asked before the expression.
StepEvalSendChecked(t) ==
    /\ pc[t] = "s_eval"
    /\ sent' = [sent EXCEPT ![t] = <<ReqValidate(1, <<>>, <<>>),
                                     ReqEvaluate(Val(loc[t].action).code)>>]
    /\ Goto(t, "s_fwd_wait")
    /\ UNCHANGED <<state, lock, loc, ret, simTime, okLog, incs, ws, fn, http>>

\* Variant of StepEvalSend: a timeout_s given to step bounds the round trip of
\* the expression.
StepEvalSendTimed(t) ==
    /\ pc[t] = "s_eval"
    /\ Send(t, IF IsNone(loc[t].timeout_s)
               THEN ReqEvaluate(Val(loc[t].action).code)
               ELSE [method |-> "evaluate", route |-> "evaluate",
                     code |-> Val(loc[t].action).code,
                     timeout |-> Val(loc[t].timeout_s)])
    /\ Goto(t, "s_fwd_wait")
    /\ UNCHANGED <<state, lock, loc, ret, simTime, okLog, incs, ws, fn, http>>

\* _ = timeout_s; self.rl.evaluate(action.code)
StepEvalSend(t) ==
    /\ pc[t] = "s_eval"
    /\ Send(t, ReqEvaluate(Val(loc[t].action).code))
    /\ Goto(t, "s_fwd_wait")
    /\ UNCHANGED <<state, lock, loc, ret, simTime, okLog, incs, ws, fn, http>>

\* Variant of StepForwardRecv: step_count is also incremented when the forward
\* raised.
StepForwardRecvCounting(t) ==
    /\ pc[t] = "s_fwd_wait"
    /\ \E o \in Outcomes(IF Val(loc[t].action).op = "push_command"
                         THEN PushValues ELSE EvalValues) :
          IF IsRaise(o)
          THEN /\ state' = [state EXCEPT !.step_count = @ + 1]
               /\ incs' = incs + 1
               /\ ret' = [ret EXCEPT ![t] =
                            Returned(StepObservation(FALSE, JNull, Some(ErrStr(o.raise)),
                                                     state'))]
               /\ Goto(t, "ret")
               /\ loc' = [loc EXCEPT ![t].exc = Some(o.raise)]
          ELSE /\ loc' = [loc EXCEPT ![t].result = Some(NormalizeEvalResult(o.val))]
               /\ Goto(t, "s_inc")
               /\ UNCHANGED <<state, incs, ret>>
    /\ UNCHANGED <<lock, sent, simTime, okLog, ws, fn, http>>

\* Variant of StepForwardRecv: a forward that raised is sent once more.
StepForwardRecvRetrying(t) ==
    /\ pc[t] = "s_fwd_wait"
    /\ \E o \in Outcomes(IF Val(loc[t].action).op = "push_command"
                         THEN PushValues ELSE EvalValues) :
          IF IsRaise(o) /\ IsNone(loc[t].exc)
          THEN /\ sent' = [sent EXCEPT ![t] = Append(@, @[Len(@)])]
               /\ loc' = [loc EXCEPT ![t].exc = Some(o.raise)]
               /\ UNCHANGED <<pc, ret>>
          ELSE IF IsRaise(o)
          THEN /\ Failed(t, ErrStr(o.raise))
               /\ Goto(t, "ret")
               /\ UNCHANGED <<loc, sent>>
          ELSE /\ loc' = [loc EXCEPT ![t].result = Some(NormalizeEvalResult(o.val))]
               /\ Goto(t, "s_inc")
               /\ UNCHANGED <<ret, sent>>
    /\ UNCHANGED <<state, lock, simTime, okLog, incs, ws, fn, http>>

\* The forward's reply: "except Exception as e", or the normalized result.
StepForwardRecv(t) ==
    /\ pc[t] = "s_fwd_wait"
    /\ \E o \in Outcomes(IF Val(loc[t].action).op = "push_command"
                         THEN PushValues ELSE EvalValues) :
          IF IsRaise(o)
          THEN /\ Failed(t, ErrStr(o.raise))
               /\ Goto(t, "ret")
               /\ loc' = [loc EXCEPT ![t].exc = Some(o.raise)]
          ELSE /\ loc' = [loc EXCEPT ![t].result = Some(NormalizeEvalResult(o.val))]
               /\ Goto(t, "s_inc")
               /\ UNCHANGED ret
    /\ UNCHANGED <<state, lock, sent, simTime, okLog, incs, ws, fn, http>>

\* self._state.step_count += 1: the read ...
StepIncRead(t) ==
    /\ pc[t] = "s_inc"
    /\ loc' = [loc EXCEPT ![t].cnt = state.step_count]
    /\ Goto(t, "s_inc_write")
    /\ UNCHANGED <<state, lock, sent, ret, simTime, okLog, incs, ws, fn, http>>

\* Variant of StepIncWrite: the read value is written back.
StepIncWriteSame(t) ==
    /\ pc[t] = "s_inc_write"
    /\ state' = [state EXCEPT !.step_count = loc[t].cnt]
    /\ incs' = incs + 1
    /\ Goto(t, "s_time")
    /\ UNCHANGED <<lock, loc, sent, ret, simTime, okLog, ws, fn, http>>

\* ... and the write.
StepIncWrite(t) ==
    /\ pc[t] = "s_inc_write"
    /\ state' = [state EXCEPT !.step_count = loc[t].cnt + 1]
    /\ incs' = incs + 1
    /\ Goto(t, "s_time")
    /\ UNCHANGED <<lock, loc, sent, ret, simTime, okLog, ws, fn, http>>

StepTimeSend(t) ==
    /\ pc[t] = "s_time"
    /\ Send(t, ReqSimTime)
    /\ Goto(t, "s_time_wait")
    /\ UNCHANGED <<state, lock, loc, ret, simTime, okLog, incs, ws, fn, http>>

\* t = self._get_sim_time(); the refresh of last_sim_time; the ok observation.
\* An exception of the request leaves step.
StepTimeRecv(t) ==
    /\ pc[t] = "s_time_wait"
    /\ \E o \in Outcomes(TimeValues(simTime)) :
          IF IsRaise(o)
          THEN /\ ret' = [ret EXCEPT ![t] = Raised(o.raise)]
               /\ UNCHANGED <<state, loc, okLog, incs>>
          ELSE LET tm == SimTimeOf(o.val)
                   st == IF ~IsNone(tm) THEN [state EXCEPT !.last_sim_time = tm]
                         ELSE state
               IN /\ loc' = [loc EXCEPT ![t].t = tm]
                  /\ state' = st
                  /\ ret' = [ret EXCEPT ![t] =
                               Returned(StepObservation(TRUE, Val(loc[t].result), None, st))]
                  /\ okLog' = Append(okLog, st.step_count)
    /\ Goto(t, "ret")
    /\ UNCHANGED <<lock, sent, simTime, incs, ws, fn, http>>

(***************************************************************************)
(* The specification.                                                      *)
(***************************************************************************)
Next ==
    \/ EngineTick
    \/ \E t \in Threads :
          \/ CallReset(t)
          \/ ResetAcquire(t)
          \/ ResetSetEpisode(t)
          \/ ResetSetCount(t)
          \/ ResetPingSend(t)
          \/ ResetPingRecv(t)
          \/ ResetT1Send(t)
          \/ ResetT1Recv(t)
          \/ ResetT2Send(t)
          \/ ResetT2Recv(t)
          \/ ResetSetLast(t)
          \/ ResetSetStepper(t)
          \/ CallStep(t)
          \/ StepAcquire(t)
          \/ StepDecode(t)
          \/ StepValidate(t)
          \/ StepValidateRecv(t)
          \/ StepPushSend(t)
          \/ StepEvalSend(t)
          \/ StepForwardRecv(t)
          \/ StepIncRead(t)
          \/ StepIncWrite(t)
          \/ StepTimeSend(t)
          \/ StepTimeRecv(t)
          \/ Return(t)

Spec == Init /\ [][Next]_vars

\* The places of a call between taking the lock and handing back the result.
InCallPcs ==
    {"r_episode", "r_count", "r_ping", "r_ping_wait", "r_t1", "r_t1_wait", "r_t2",
     "r_t2_wait", "r_last", "r_stepper", "s_decode", "s_validate", "s_val_wait",
     "s_push", "s_eval", "s_fwd_wait", "s_inc", "s_inc_write", "s_time",
     "s_time_wait", "ret"}

\* Thread t, inside a call, takes the next step of the call (every place of
\* InCallPcs has a step that is enabled, and every step moves on).
Advance(t) ==
    /\ pc[t] \in InCallPcs
    /\ \E p \in InCallPcs \cup {"idle"} :
          /\ p # pc[t]
          /\ pc' = [pc EXCEPT ![t] = p]

\* Scheduling: a thread inside a call keeps running (threads are scheduled,
\* and every engine request ends, by a reply or by the exception of its
\* timeout); a thread waiting for the lock gets it if the lock is free again
\* and again. Whether a caller calls at all is free.
Fairness ==
    \A t \in Threads :
        /\ WF_pc(Advance(t))
        /\ SF_vars(ResetAcquire(t) \/ StepAcquire(t))

FairSpec == Spec /\ Fairness

(***************************************************************************)
(* The streaming channel (server.py, websocket_endpoint): one connection,  *)
(* whose handler runs the session's methods as thread WsTask.              *)
(***************************************************************************)
MaxFrames == 2

WsTask == 1

\* Text frames a client may send.
FrameGarbage == <<"{", "\"type\"">>

FrameList == <<"[", "]">>

FrameNoType == <<"{", "}">>

FrameBogus == <<"{", "\"type\"", ":", "\"bogus\"", "}">>

FrameState == <<"{", "\"type\"", ":", "\"state\"", "}">>

FrameClose == <<"{", "\"type\"", ":", "\"close\"", "}">>

FrameReset == <<"{", "\"type\"", ":", "\"reset\"", "}">>

FrameResetEpisode ==
    <<"{", "\"type\"", ":", "\"reset\"", ",", "\"data\"", ":",
      "{", "\"episode_id\"", ":", "\"ep1\"", "}", "}">>

FrameResetBadSeed ==
    <<"{", "\"type\"", ":", "\"reset\"", ",", "\"data\"", ":",
      "{", "\"seed\"", ":", "-", "1", "}", "}">>

FrameStepNoData == <<"{", "\"type\"", ":", "\"step\"", "}">>

FrameStepEvaluate ==
    <<"{", "\"type\"", ":", "\"step\"", ",", "\"data\"", ":",
      "{", "\"op\"", ":", "\"evaluate\"", ",", "\"code\"", ":", "\"1+1\"", "}", "}">>

FrameStepPush ==
    <<"{", "\"type\"", ":", "\"step\"", ",", "\"data\"", ":",
      "{", "\"op\"", ":", "\"push_command\"", ",", "\"player_id\"", ":", "1", ",",
      "\"cmd\"", ":", "{", "\"type\"", ":", "\"stop\"", ",", "\"entity\"", ":", "1", "}",
      "}", "}">>

Frames ==
    {FrameGarbage, FrameList, FrameNoType, FrameBogus, FrameState, FrameClose,
     FrameReset, FrameResetEpisode, FrameResetBadSeed, FrameStepNoData,
     FrameStepEvaluate, FrameStepPush}

\* Python truth value of a JSON value (the "or" of msg.get("data") or {}).
Truthy(v) ==
    CASE IsNull(v) -> FALSE
      [] IsNum(v) -> v.num # 0
      [] IsBool(v) -> v.bool
      [] IsStr(v) -> v.str # <<>>
      [] IsList(v) -> v.list # <<>>
      [] IsDict(v) -> DOMAIN v.dict # {}

\* data = msg.get("data") or {}
DataOf(msg) == IF Truthy(Get(msg, "data")) THEN Get(msg, "data") ELSE JDict(EmptyDict)

\* A str of JSON as the one-unit name used for tags and identifiers.
NameOf(v) == IF IsStr(v) /\ Len(v.str) = 1 THEN v.str[1] ELSE ""

\* ResetRequest.model_validate(data), then model_dump(exclude_unset=True) as
\* the keyword arguments of reset: seed is None or an int >= 0, episode_id is
\* None or a str, other keys are allowed.
ResetRequestValidate(data) ==
    IF ~IsDict(data) THEN [ok |-> FALSE]
    ELSE LET seed == Get(data.dict, "seed")
             ep == Get(data.dict, "episode_id")
         IN IF /\ IsNull(seed) \/ (IsNum(seed) /\ seed.num >= 0)
               /\ IsNull(ep) \/ IsStr(ep)
            THEN [ok |-> TRUE,
                  seed |-> IF IsNull(seed) THEN None ELSE Some(seed.num),
                  episode_id |-> IF IsNull(ep) THEN None ELSE Some(NameOf(ep))]
            ELSE [ok |-> FALSE]

\* The dict handed to session.step, in the form Decode reads.
ActionDictOf(data) ==
    [k \in DOMAIN data.dict |->
        CASE k = "op" -> NameOf(data.dict[k])
          [] k = "player_id" -> data.dict[k].num
          [] k = "cmd" -> data.dict[k].dict
          [] k = "code" -> data.dict[k].str
          [] OTHER -> data.dict[k]]

\* Reply frames.
ErrorFrame(code, message) ==
    [type |-> "error", data |-> [message |-> message, code |-> code]]

ObservationFrame(obs) ==
    [type |-> "observation",
     data |-> [observation |-> obs, reward |-> JNull, done |-> FALSE]]

StateFrame(st) == [type |-> "state", data |-> st]

\* websocket.send_text(json.dumps(frame)): the reply joins those of the frame
\* being handled.
WsSent(w, frame) ==
    [w EXCEPT !.hist[Len(w.hist)].replies = Append(@, frame)]

\* Back to the head of the loop.
WsNext(w) == [w EXCEPT !.pc = "recv", !.raw = None, !.msg = None, !.req = None]

\* The loop is left: by break ("close"), by the client's disconnect, or by an
\* exception no handler of the loop catches; finally closes the channel.
WsEnd(w, how) == [WsNext(w) EXCEPT !.pc = "closed", !.end = how]

\* raw = await websocket.receive_text()
WsReceive ==
    /\ ws.pc = "recv"
    /\ Len(ws.hist) < MaxFrames
    /\ \E f \in Frames :
          ws' = [ws EXCEPT !.pc = "parse", !.raw = Some(f),
                           !.hist = Append(@, [frame |-> f, replies |-> <<>>])]
    /\ UNCHANGED <<state, lock, pc, loc, sent, ret, simTime, okLog, incs, fn, http>>

\* receive_text raises WebSocketDisconnect: return.
WsDisconnect ==
    /\ ws.pc = "recv"
    /\ ws' = WsEnd(ws, "disconnect")
    /\ UNCHANGED <<state, lock, pc, loc, sent, ret, simTime, okLog, incs, fn, http>>

\* Variant of WsParse: a frame that is not JSON ends the loop after the reply.
WsParseClosing ==
    /\ ws.pc = "parse"
    /\ LET r == JsonLoads(Val(ws.raw)) IN
          IF ~r.ok
          THEN ws' = WsEnd(WsSent(ws, ErrorFrame("INVALID_JSON",
                                                 <<Lit("Invalid JSON: "),
                                                   Exc("JSONDecodeError")>>)),
                           "exception")
          ELSE ws' = [ws EXCEPT !.pc = "type", !.msg = Some(r.val)]
    /\ UNCHANGED <<state, lock, pc, loc, sent, ret, simTime, okLog, incs, fn, http>>

\* msg = json.loads(raw); JSONDecodeError is answered and the loop continues.
WsParse ==
    /\ ws.pc = "parse"
    /\ LET r == JsonLoads(Val(ws.raw)) IN
          IF ~r.ok
          THEN ws' = WsNext(WsSent(ws, ErrorFrame("INVALID_JSON",
                                                  <<Lit("Invalid JSON: "),
                                                    Exc("JSONDecodeError")>>)))
          ELSE ws' = [ws EXCEPT !.pc = "type", !.msg = Some(r.val)]
    /\ UNCHANGED <<state, lock, pc, loc, sent, ret, simTime, okLog, incs, fn, http>>

\* msg_type = msg.get("type"), outside the try block of the dispatch: a value
\* that is no dict has no get, and the AttributeError leaves the loop.
WsGetType ==
    /\ ws.pc = "type"
    /\ IF IsDict(Val(ws.msg))
       THEN ws' = [ws EXCEPT !.pc = "handle"]
       ELSE ws' = WsEnd(ws, "exception")
    /\ UNCHANGED <<state, lock, pc, loc, sent, ret, simTime, okLog, incs, fn, http>>

MsgType == Get(Val(ws.msg).dict, "type")

\* The reply of the handler "except Exception as e".
ExecutionError(m) == ErrorFrame("EXECUTION_ERROR", <<Exc(m)>>)

\* Variant of WsHandleReset: a payload that fails validation is replaced by
\* the empty payload and the reset is made.
WsHandleResetLenient ==
    /\ ws.pc = "handle"
    /\ MsgType = JStr(<<"reset">>)
    /\ LET req == ResetRequestValidate(DataOf(Val(ws.msg).dict)) IN
          /\ ws' = [ws EXCEPT !.pc = "call",
                              !.req = Some(IF req.ok THEN req
                                           ELSE ResetRequestValidate(JDict(EmptyDict)))]
          /\ Goto(WsTask, "r_lock")
    /\ UNCHANGED <<state, lock, loc, sent, ret, simTime, okLog, incs, fn, http>>

\* "reset": the payload is validated, then session.reset is called.
WsHandleReset ==
    /\ ws.pc = "handle"
    /\ MsgType = JStr(<<"reset">>)
    /\ LET req == ResetRequestValidate(DataOf(Val(ws.msg).dict)) IN
          IF ~req.ok
          THEN /\ ws' = WsNext(WsSent(ws, ExecutionError("ValidationError")))
               /\ UNCHANGED pc
          ELSE /\ ws' = [ws EXCEPT !.pc = "call", !.req = Some(req)]
               /\ Goto(WsTask, "r_lock")
    /\ UNCHANGED <<state, lock, loc, sent, ret, simTime, okLog, incs, fn, http>>

\* "step": session.step(data) is called.
WsHandleStep ==
    /\ ws.pc = "handle"
    /\ MsgType = JStr(<<"step">>)
    /\ ws' = [ws EXCEPT !.pc = "call", !.req = Some(DataOf(Val(ws.msg).dict))]
    /\ Goto(WsTask, "s_lock")
    /\ UNCHANGED <<state, lock, loc, sent, ret, simTime, okLog, incs, fn, http>>

\* "state": session.state is read (no lock) and sent.
WsHandleState ==
    /\ ws.pc = "handle"
    /\ MsgType = JStr(<<"state">>)
    /\ ws' = WsNext(WsSent(ws, StateFrame(state)))
    /\ UNCHANGED <<state, lock, pc, loc, sent, ret, simTime, okLog, incs, fn, http>>

\* Variant of WsHandleClose: the loop goes on to the next frame.
WsHandleCloseContinue ==
    /\ ws.pc = "handle"
    /\ MsgType = JStr(<<"close">>)
    /\ ws' = WsNext(ws)
    /\ UNCHANGED <<state, lock, pc, loc, sent, ret, simTime, okLog, incs, fn, http>>

\* "close": break.
WsHandleClose ==
    /\ ws.pc = "handle"
    /\ MsgType = JStr(<<"close">>)
    /\ ws' = WsEnd(ws, "close")
    /\ UNCHANGED <<state, lock, pc, loc, sent, ret, simTime, okLog, incs, fn, http>>

\* Variant of WsHandleUnknown: a message without a type is answered as a
\* failed execution.
WsHandleUnknownStrict ==
    /\ ws.pc = "handle"
    /\ MsgType \notin {JStr(<<"reset">>), JStr(<<"step">>), JStr(<<"state">>),
                       JStr(<<"close">>)}
    /\ ws' = WsNext(WsSent(ws, IF IsNull(MsgType)
                               THEN ExecutionError("KeyError")
                               ELSE ErrorFrame("UNKNOWN_TYPE",
                                               <<Lit("Unknown message type: "),
                                                 [value |-> MsgType]>>)))
    /\ UNCHANGED <<state, lock, pc, loc, sent, ret, simTime, okLog, incs, fn, http>>

\* Any other type, or none.
WsHandleUnknown ==
    /\ ws.pc = "handle"
    /\ MsgType \notin {JStr(<<"reset">>), JStr(<<"step">>), JStr(<<"state">>),
                       JStr(<<"close">>)}
    /\ ws' = WsNext(WsSent(ws, ErrorFrame("UNKNOWN_TYPE",
                                          <<Lit("Unknown message type: "),
                                            [value |-> MsgType]>>)))
    /\ UNCHANGED <<state, lock, pc, loc, sent, ret, simTime, okLog, incs, fn, http>>

\* session.reset(**req.model_dump(exclude_unset=True)) takes the lock.
WsResetAcquire ==
    /\ ws.pc = "call"
    /\ ResetAcquireWith(WsTask, Val(ws.req).seed, Val(ws.req).episode_id)

\* session.step(data) decodes data.
WsStepDecode ==
    /\ ws.pc = "call"
    /\ StepDecodeWith(WsTask, ActionDictOf(Val(ws.req)))

\* The session call is over: its observation is sent in the envelope, or its
\* exception is answered by the handler; the loop continues.
WsReturn ==
    /\ ws.pc = "call"
    /\ Leave(WsTask)
    /\ UNCHANGED http
    /\ ws' = WsNext(WsSent(ws, IF "obs" \in DOMAIN Val(ret[WsTask])
                               THEN ObservationFrame(Val(ret[WsTask]).obs)
                               ELSE ExecutionError(Val(ret[WsTask]).raise)))

\* The steps of the session's methods between taking the lock and leaving.
WsSession(t) ==
    \/ ResetSetEpisode(t)
    \/ ResetSetCount(t)
    \/ ResetPingSend(t)
    \/ ResetPingRecv(t)
    \/ ResetT1Send(t)
    \/ ResetT1Recv(t)
    \/ ResetT2Send(t)
    \/ ResetT2Recv(t)
    \/ ResetSetLast(t)
    \/ ResetSetStepper(t)
    \/ StepAcquire(t)
    \/ StepValidate(t)
    \/ StepValidateRecv(t)
    \/ StepPushSend(t)
    \/ StepEvalSend(t)
    \/ StepForwardRecv(t)
    \/ StepIncRead(t)
    \/ StepIncWrite(t)
    \/ StepTimeSend(t)
    \/ StepTimeRecv(t)

NextWs ==
    \/ EngineTick
    \/ WsReceive
    \/ WsDisconnect
    \/ WsParse
    \/ WsGetType
    \/ WsHandleReset
    \/ WsHandleStep
    \/ WsHandleState
    \/ WsHandleClose
    \/ WsHandleUnknown
    \/ WsResetAcquire
    \/ WsStepDecode
    \/ WsReturn
    \/ WsSession(WsTask)

SpecWs == Init /\ [][NextWs]_vars

(***************************************************************************)
(* The request/response routes of create_app (server.py): POST /reset,     *)
(* POST /step and GET /state.  The handlers are coroutines of one event    *)
(* loop and call the session synchronously, so one request is served to    *)
(* its end before the next is taken up.  A request is a route with its     *)
(* decoded JSON body; a response is the body returned, "refused" when the  *)
(* body does not fit the declared request model (the handler is not        *)
(* entered), or the exception that left the handler.                       *)
(***************************************************************************)
MaxRequests == 1

HttpTask == 1

\* The payload (data) of a frame of the stream, as the handler of the stream
\* reads it.
DataOfFrame(f) == DataOf(JsonLoads(f).val.dict)

\* Bodies of POST /reset, payloads of the 'action' of POST /step and values of
\* its timeout_s: the ones the frames of the stream carry as data, with a
\* timeout absent or positive; one body has a timeout refused by Field(gt=0)
\* and one has no action.
ResetBodies == {DataOfFrame(f) : f \in {FrameReset, FrameResetEpisode, FrameResetBadSeed}}

StepActions == {DataOfFrame(f) : f \in {FrameStepNoData, FrameStepEvaluate, FrameStepPush}}

TimeoutValues == {JNull, JNum(1)}

HttpRequests ==
    {[route |-> "reset", body |-> b] : b \in ResetBodies}
        \cup {[route |-> "step", body |-> JDict([action |-> a, timeout_s |-> ts])] :
                 a \in StepActions, ts \in TimeoutValues}
        \cup {[route |-> "step",
               body |-> JDict([action |-> DataOfFrame(FrameStepEvaluate),
                               timeout_s |-> JNum(0)])],
              [route |-> "step", body |-> JDict(EmptyDict)],
              [route |-> "state", body |-> JNull]}

\* StepRequest (models.py): action is a dict, timeout_s is None or a number > 0.
StepRequestValidate(body) ==
    IF ~IsDict(body) THEN [ok |-> FALSE]
    ELSE LET action == Get(body.dict, "action")
             ts == Get(body.dict, "timeout_s")
         IN IF /\ IsDict(action)
               /\ IsNull(ts) \/ (IsNum(ts) /\ ts.num > 0)
            THEN [ok |-> TRUE, action |-> action,
                  timeout_s |-> IF IsNull(ts) THEN None ELSE Some(ts.num)]
            ELSE [ok |-> FALSE]

\* ResetResponse / StepResponse (observation=obs, reward=None, done=False)
HttpEnvelope(obs) == [observation |-> obs, reward |-> JNull, done |-> FALSE]

\* Responses.
HttpBody(b) == [body |-> b]

HttpRefused == [refused |-> TRUE]

HttpRaised(m) == [raise |-> m]

\* The response of the request being served is recorded and the next request
\* may be read.
HttpRespond(h, r) ==
    [h EXCEPT !.pc = "recv", !.args = None, !.hist[Len(h.hist)].resp = Some(r)]

\* The request being served.
HttpReq == http.hist[Len(http.hist)].req

\* Request r arrives.
HttpReceiveWith(r) ==
    /\ http.pc = "recv"
    /\ Len(http.hist) < MaxRequests
    /\ http' = [http EXCEPT !.pc = "handle",
                            !.hist = Append(@, [req |-> r, resp |-> None])]
    /\ UNCHANGED <<state, lock, pc, loc, sent, ret, simTime, okLog, incs, ws, fn>>

\* Any request arrives.
HttpReceive == \E r \in HttpRequests : HttpReceiveWith(r)

\* POST /reset: session.reset(**request.model_dump(exclude_unset=True))
HttpHandleReset ==
    /\ http.pc = "handle"
    /\ HttpReq.route = "reset"
    /\ LET req == ResetRequestValidate(HttpReq.body) IN
          IF ~req.ok
          THEN /\ http' = HttpRespond(http, HttpRefused)
               /\ UNCHANGED pc
          ELSE /\ http' = [http EXCEPT !.pc = "call", !.args = Some(req)]
               /\ Goto(HttpTask, "r_lock")
    /\ UNCHANGED <<state, lock, loc, sent, ret, simTime, okLog, incs, ws, fn>>

\* POST /step: session.step(request.action, timeout_s=request.timeout_s)
HttpHandleStep ==
    /\ http.pc = "handle"
    /\ HttpReq.route = "step"
    /\ LET req == StepRequestValidate(HttpReq.body) IN
          IF ~req.ok
          THEN /\ http' = HttpRespond(http, HttpRefused)
               /\ UNCHANGED pc
          ELSE /\ http' = [http EXCEPT !.pc = "call", !.args = Some(req)]
               /\ Goto(HttpTask, "s_lock")
    /\ UNCHANGED <<state, lock, loc, sent, ret, simTime, okLog, incs, ws, fn>>

\* GET /state: return session.state
HttpHandleState ==
    /\ http.pc = "handle"
    /\ HttpReq.route = "state"
    /\ http' = HttpRespond(http, HttpBody(state))
    /\ UNCHANGED <<state, lock, pc, loc, sent, ret, simTime, okLog, incs, ws, fn>>

\* session.reset is entered with the keyword arguments of the request.
HttpResetAcquire ==
    /\ http.pc = "call"
    /\ ResetAcquireWith(HttpTask, Val(http.args).seed, Val(http.args).episode_id)

\* session.step is entered with the request's timeout_s.
HttpStepAcquire ==
    /\ http.pc = "call"
    /\ StepAcquireWith(HttpTask, Val(http.args).timeout_s)

\* Variant of HttpStepDecode: the whole body is handed to session.step.
HttpStepDecodeWhole ==
    /\ http.pc = "call"
    /\ StepDecodeWith(HttpTask, ActionDictOf(HttpReq.body))

\* session.step decodes request.action.
HttpStepDecode ==
    /\ http.pc = "call"
    /\ StepDecodeWith(HttpTask, ActionDictOf(Val(http.args).action))

\* The session call is over: its observation is returned in the envelope, or
\* its exception leaves the handler.
HttpReturn ==
    /\ http.pc = "call"
    /\ Leave(HttpTask)
    /\ http' = HttpRespond(http, IF "obs" \in DOMAIN Val(ret[HttpTask])
                                 THEN HttpBody(HttpEnvelope(Val(ret[HttpTask]).obs))
                                 ELSE HttpRaised(Val(ret[HttpTask]).raise))
    /\ UNCHANGED ws

\* The steps of the session's methods between taking the lock and leaving.
HttpSession(t) ==
    \/ ResetSetEpisode(t)
    \/ ResetSetCount(t)
    \/ ResetPingSend(t)
    \/ ResetPingRecv(t)
    \/ ResetT1Send(t)
    \/ ResetT1Recv(t)
    \/ ResetT2Send(t)
    \/ ResetT2Recv(t)
    \/ ResetSetLast(t)
    \/ ResetSetStepper(t)
    \/ StepValidate(t)
    \/ StepValidateRecv(t)
    \/ StepPushSend(t)
    \/ StepEvalSend(t)
    \/ StepForwardRecv(t)
    \/ StepIncRead(t)
    \/ StepIncWrite(t)
    \/ StepTimeSend(t)
    \/ StepTimeRecv(t)

NextHttp ==
    \/ EngineTick
    \/ HttpReceive
    \/ HttpHandleReset
    \/ HttpHandleStep
    \/ HttpHandleState
    \/ HttpResetAcquire
    \/ HttpStepAcquire
    \/ HttpStepDecode
    \/ HttpReturn
    \/ HttpSession(HttpTask)

SpecHttp == Init /\ [][NextHttp]_vars

(***************************************************************************)
(* GET /state served while other threads call the session: create_app      *)
(* takes a session that its creator may go on using, and the handler reads *)
(* session.state without the lock.                                         *)
(***************************************************************************)
StateRequest == [route |-> "state", body |-> JNull]

\* A state read arrives (the model follows one read; the run is followed up to
\* its response).
HttpReceiveState == http.hist = <<>> /\ HttpReceiveWith(StateRequest)

ReadAnswered == http.hist # <<>> /\ ~IsNone(http.hist[1].resp)

\* A call of another thread ends; the episode id it leaves is remembered.
ReturnLeaving(t) ==
    /\ Leave(t)
    /\ http' = [http EXCEPT !.left = @ \cup {state.episode_id}]
    /\ UNCHANGED ws

NextRead ==
    \/ EngineTick
    \/ HttpReceiveState
    \/ HttpHandleState
    \/ \E t \in Threads :
          /\ ~ReadAnswered
          /\ \/ CallReset(t)
             \/ ResetAcquire(t)
             \/ ResetSetEpisode(t)
             \/ ResetSetCount(t)
             \/ ResetPingSend(t)
             \/ ResetPingRecv(t)
             \/ ResetT1Send(t)
             \/ ResetT1Recv(t)
             \/ ResetT2Send(t)
             \/ ResetT2Recv(t)
             \/ ResetSetLast(t)
             \/ ResetSetStepper(t)
             \/ CallStep(t)
             \/ StepAcquire(t)
             \/ StepDecode(t)
             \/ StepValidate(t)
             \/ StepValidateRecv(t)
             \/ StepPushSend(t)
             \/ StepEvalSend(t)
             \/ StepForwardRecv(t)
             \/ StepIncRead(t)
             \/ StepIncWrite(t)
             \/ StepTimeSend(t)
             \/ StepTimeRecv(t)
             \/ ReturnLeaving(t)

SpecRead == Init /\ [][NextRead]_vars

(***************************************************************************)
(* The module-level functions applied on their own: _normalize_eval_result,*)
(* the id collection of _validate_sim_command, and the encoding and        *)
(* decoding of actions.                                                    *)
(***************************************************************************)
MaxStrLen == 3

MaxIds == 2

\* Lexical units of the strings handed to _normalize_eval_result.
NormUnits == {"{", "}", "[", "]", Blank, "1", "\"a\"", ","}

SeqsUpTo(S, n) == UNION {[1..k -> S] : k \in 0..n}

\* Values an engine reply can decode to: every short string, some longer
\* ones, and values that are no strings.
NormInputs ==
    {JStr(s) : s \in SeqsUpTo(NormUnits, MaxStrLen)}
        \cup {JStr(JsonOkTrue), JStr(<<Blank>> \o JsonOkFalse \o <<Blank>>),
              JStr(<<"{", "[", "]", "}">>), JStr(<<"[", "\"a\"", ",", "1", "]">>)}
        \cup {JNull, JNum(1), JBool(TRUE), JList(<<JStr(<<"[", "]">>)>>),
              JDict([a |-> JStr(<<"{", "}">>)])}

\* Values met where an id is expected.
IdVals ==
    {JNum(1), JNum(2), JNum(0), JNum(0 - 1), JBool(TRUE), JStr(<<"2">>),
     JStr(<<"0", "2">>), JStr(<<"0">>), JStr(<<"x">>), JStr(<<"sup2">>), JNull}

ScalarFields == {"entity", "garrisonHolder", "target"}

\* Commands over the conventional fields.
FnCmds ==
    {[entities |-> JList(l)] : l \in SeqsUpTo(IdVals, MaxIds)}
        \cup {(k :> v) @@ [entities |-> JList(<<e>>)] :
                 k \in ScalarFields, v \in IdVals, e \in {JNum(1), JStr(<<"2">>)}}
        \cup {[garrisonHolders |-> JList(<<e>>), entity |-> v] : e \in IdVals, v \in IdVals}
        \cup {[entities |-> JNum(1)], [entity |-> JList(<<JNum(1)>>)],
              [target |-> JList(<<JNum(3)>>)]}

\* The actions the Action union accepts.
ValidActions ==
    {[op |-> "push_command", player_id |-> p, cmd |-> c] : p \in 0..2, c \in Cmds}
        \cup {[op |-> "evaluate", code |-> c] : c \in {Code, <<"sim_time_script">>}}

\* Variant of Encode: fields holding their default are left out
\* (exclude_defaults).
EncodeExcludeDefaults(a) ==
    IF a.op = "push_command"
    THEN [k \in {"player_id", "cmd"} |-> a[k]]
    ELSE [k \in {"code"} |-> a[k]]

\* BaseModel.model_dump(): the dict of the declared fields of the action's
\* class, the discriminator included.
Encode(a) ==
    IF a.op = "push_command"
    THEN [k \in {"op", "player_id", "cmd"} |-> a[k]]
    ELSE [k \in {"op", "code"} |-> a[k]]

FnApplied(f) ==
    /\ fn' = f
    /\ UNCHANGED <<state, lock, pc, loc, sent, ret, simTime, okLog, incs, ws, http>>

\* out = _normalize_eval_result(value)
FnNormalize ==
    /\ fn.op = "normalize"
    /\ fn.out = None
    /\ FnApplied([fn EXCEPT !.out = Some(NormalizeEvalResult(Val(fn.arg)))])

\* _normalize_eval_result(out)
FnNormalizeAgain ==
    /\ fn.op = "normalize"
    /\ fn.out # None
    /\ fn.again = None
    /\ FnApplied([fn EXCEPT !.again = Some(NormalizeEvalResult(Val(fn.out)))])

\* The id collection of _validate_sim_command(player_id, cmd)
FnCollect ==
    /\ fn.op = "collect"
    /\ fn.out = None
    /\ FnApplied([fn EXCEPT !.out = Some(CollectIds(Val(fn.arg)))])

\* action.model_dump()
FnEncode ==
    /\ fn.op = "codec"
    /\ fn.out = None
    /\ FnApplied([fn EXCEPT !.out = Some(Encode(Val(fn.arg)))])

\* _ACTION_ADAPTER.validate_python(encoded)
FnDecode ==
    /\ fn.op = "codec"
    /\ fn.out # None
    /\ fn.again = None
    /\ FnApplied([fn EXCEPT !.again = Some(Decode(Val(fn.out)))])

FnArgs ==
    {[Fn0 EXCEPT !.op = "normalize", !.arg = Some(v)] : v \in NormInputs}
        \cup {[Fn0 EXCEPT !.op = "collect", !.arg = Some(c)] : c \in FnCmds}
        \cup {[Fn0 EXCEPT !.op = "codec", !.arg = Some(a)] : a \in ValidActions}

InitFn ==
    /\ InitSession
    /\ fn \in FnArgs

NextFn ==
    \/ FnNormalize
    \/ FnNormalizeAgain
    \/ FnCollect
    \/ FnEncode
    \/ FnDecode

SpecFn == InitFn /\ [][NextFn]_vars

(***************************************************************************)
(* Vocabulary of the properties.                                           *)
(***************************************************************************)
\* Thread t is about to leave method call ("reset" or "step").
AtRet(t, call) == pc[t] = "ret" /\ loc[t].call = call

HasObs(t) == pc[t] = "ret" /\ "obs" \in DOMAIN Val(ret[t])

HasRaised(t) == pc[t] = "ret" /\ "raise" \in DOMAIN Val(ret[t])

ObsOf(t) == Val(ret[t]).obs

\* The request that forwards a decoded action.
ForwardReq(a) ==
    IF a.op = "push_command" THEN ReqPush(a.player_id, a.cmd) ELSE ReqEvaluate(a.code)

\* The step running in t has issued its forward.
Forwarded(t) ==
    /\ loc[t].call = "step"
    /\ ~IsNone(loc[t].action)
    /\ \E i \in DOMAIN sent[t] : sent[t][i] = ForwardReq(Val(loc[t].action))

PushSent(t) == \E i \in DOMAIN sent[t] : sent[t][i].method = "push_command"

\* The lists of the ownership check's reply read by the step running in t.
ReportedList(t, field) ==
    IF ~IsNone(loc[t].out) /\ IsDict(Val(loc[t].out))
       /\ IsList(Get(Val(loc[t].out).dict, field))
    THEN Get(Val(loc[t].out).dict, field).list
    ELSE <<>>

\* The engine answered the ownership check with ok=false and at least one
\* missing or wrongly owned id.
RejectedByEngine(t) ==
    /\ loc[t].call = "step"
    /\ ~IsNone(loc[t].out)
    /\ IsDict(Val(loc[t].out))
    /\ Get(Val(loc[t].out).dict, "ok") = JBool(FALSE)
    /\ (ReportedList(t, "missing") # <<>> \/ ReportedList(t, "wrongOwner") # <<>>)

\* Error string err has a piece named field that shows value v.
Names(err, field, v) ==
    \E i \in DOMAIN err : field \in DOMAIN err[i] /\ v \in Range(err[i][field])

\* Threads past the lock of a call, and threads with an engine request out.
InCall == {t \in Threads : pc[t] \notin {"idle", "r_lock", "s_lock"}}

InFlight ==
    {t \in Threads : pc[t] \in {"r_ping_wait", "r_t1_wait", "r_t2_wait", "s_val_wait",
                                "s_fwd_wait", "s_time_wait"}}

(***************************************************************************)
(* Properties.                                                             *)
(***************************************************************************)
\* C1: when reset leaves (ok=true, ok=false after a failed probe, or otherwise)
\* the session's step_count is 0, and an observation it returns reports 0.
C1_ResetLeavesCountZero ==
    \A t \in Threads :
        AtRet(t, "reset") =>
            /\ state.step_count = 0
            /\ HasObs(t) => ObsOf(t).step_count = 0

C1_Witness ==
    \E t \in Threads :
        /\ AtRet(t, "reset")
        /\ HasObs(t)
        /\ ~ObsOf(t).ok
        /\ ~IsNone(state.last_sim_time)

\* C2: a step whose forward returned without exception has increased step_count
\* by exactly 1, and the observation it returns is ok=true and reports that value.
C2_SuccessIncrementsOnce ==
    \A t \in Threads :
        (AtRet(t, "step") /\ ~IsNone(loc[t].result)) =>
            /\ state.step_count = loc[t].pre.step_count + 1
            /\ HasObs(t) => (ObsOf(t).ok /\ ObsOf(t).step_count = loc[t].pre.step_count + 1)

C2_Witness ==
    \E t \in Threads :
        /\ AtRet(t, "step")
        /\ HasObs(t)
        /\ ObsOf(t).ok
        /\ ObsOf(t).step_count = 2
        /\ Val(loc[t].action).op = "push_command"

\* C3: when the forward of a step raises, step returns ok=false with the
\* exception's message as error and step_count is what it was before the call.
C3_ForwardExceptionIsObservation ==
    \A t \in Threads :
        (AtRet(t, "step") /\ ~IsNone(loc[t].exc)) =>
            /\ HasObs(t)
            /\ ~ObsOf(t).ok
            /\ ObsOf(t).error = Some(<<[exc |-> Val(loc[t].exc)]>>)
            /\ state.step_count = loc[t].pre.step_count

C3_Witness ==
    \E t \in Threads :
        /\ AtRet(t, "step")
        /\ ~IsNone(loc[t].exc)
        /\ Val(loc[t].action).op = "evaluate"
        /\ loc[t].pre.step_count = 1

\* C4 as stated: every step that reached the forward has increased step_count
\* by exactly 1, whether the forward succeeded or raised.
C4_ForwardedAlwaysCounts ==
    \A t \in Threads :
        (AtRet(t, "step") /\ Forwarded(t)) =>
            state.step_count = loc[t].pre.step_count + 1

\* C4 amended: a step that reached the forward has increased step_count by
\* exactly 1 unless it returns ok=false (the forward raised), and then
\* step_count is unchanged.
C4_ForwardedCountsUnlessFailed ==
    \A t \in Threads :
        (AtRet(t, "step") /\ Forwarded(t)) =>
            state.step_count =
                loc[t].pre.step_count + (IF HasObs(t) /\ ~ObsOf(t).ok THEN 0 ELSE 1)

C4_Witness ==
    \E t \in Threads :
        /\ AtRet(t, "step")
        /\ Forwarded(t)
        /\ HasObs(t)
        /\ ~ObsOf(t).ok
        /\ Val(loc[t].action).op = "push_command"
        /\ state.step_count = 1

\* C5: when the engine reports an id of a push_command as missing or wrongly
\* owned, step returns ok=false with an error showing every reported id, no
\* push_command request is issued during the call, and step_count is unchanged.
C5_RejectionNamesIdsAndForwardsNothing ==
    \A t \in Threads :
        RejectedByEngine(t) =>
            /\ ~PushSent(t)
            /\ state.step_count = loc[t].pre.step_count
            /\ pc[t] = "ret"
            /\ HasObs(t)
            /\ ~ObsOf(t).ok
            /\ ~IsNone(ObsOf(t).error)
            /\ \A v \in Range(ReportedList(t, "missing")) :
                  Names(Val(ObsOf(t).error), "missing", v)
            /\ \A v \in Range(ReportedList(t, "wrongOwner")) :
                  Names(Val(ObsOf(t).error), "wrongOwner", v)

C5_Witness ==
    \E t \in Threads :
        /\ RejectedByEngine(t)
        /\ pc[t] = "ret"
        /\ JNum(3) \in Range(ReportedList(t, "missing"))
        /\ ReportedList(t, "wrongOwner") # <<>>
        /\ loc[t].pre.step_count = 1

\* C6: a step whose action dict does not match the action union (unknown or
\* missing op, missing or extra field, negative player_id, empty code) raises
\* the schema error with no engine request issued and the session state as it
\* was before the call.
C6_SchemaErrorTouchesNothing ==
    \A t \in Threads :
        (/\ loc[t].call = "step"
         /\ ~IsNone(loc[t].action_dict)
         /\ Val(loc[t].action_dict) \in InvalidActionDicts) =>
            /\ pc[t] = "ret"
            /\ ret[t] = Raised("ValidationError")
            /\ sent[t] = <<>>
            /\ state = loc[t].pre

C6_Witness ==
    \E t \in Threads :
        /\ AtRet(t, "step")
        /\ HasRaised(t)
        /\ "player_id" \in DOMAIN Val(loc[t].action_dict)
        /\ "cmd" \in DOMAIN Val(loc[t].action_dict)
        /\ Val(loc[t].action_dict).player_id < 0
        /\ state.step_count = 1

\* C7: every observation returned by reset or step has, when ok=false, no
\* result and an error, and when ok=true, no error.
C7_ObservationShape ==
    \A t \in Threads :
        HasObs(t) =>
            /\ ~ObsOf(t).ok => (ObsOf(t).result = JNull /\ ~IsNone(ObsOf(t).error))
            /\ ObsOf(t).ok => IsNone(ObsOf(t).error)

C7_Witness ==
    \E t \in Threads :
        /\ AtRet(t, "step")
        /\ HasObs(t)
        /\ ~ObsOf(t).ok
        /\ ObsOf(t).error = Some(ErrWalkXZ)

\* cmd is a walk whose 'entities' is an empty list or absent.
WalkWithoutEntities(cmd) ==
    /\ Get(cmd, "type") = Walk
    /\ Get(cmd, "entities") \in {JNull, JList(<<>>)}

\* C8: a push_command of a walk with empty or absent 'entities' issues no
\* engine request, whatever its other fields, and step returns ok=false.
C8_WalkWithoutEntitiesRejected ==
    \A t \in Threads :
        (/\ loc[t].call = "step"
         /\ ~IsNone(loc[t].action)
         /\ Val(loc[t].action).op = "push_command"
         /\ WalkWithoutEntities(Val(loc[t].action).cmd)) =>
            /\ sent[t] = <<>>
            /\ pc[t] = "ret" => (HasObs(t) /\ ~ObsOf(t).ok)

\* C9: at most one call is past the session lock, it holds the lock, and only
\* it has engine requests issued or in flight.
C9_OneCallAtATime ==
    /\ Cardinality(InCall) <= 1
    /\ Cardinality(InFlight) <= 1
    /\ \A t \in Threads : (t \in InCall) => lock = t
    /\ \A t \in Threads : (sent[t] # <<>>) => t \in InCall

C9_Witness ==
    \E t, u \in Threads :
        /\ t # u
        /\ pc[t] = "s_fwd_wait"
        /\ pc[u] \in {"r_lock", "s_lock"}

\* C10: the step_count values of the ok=true step observations, in the order
\* the calls held the lock (since the last reset), strictly increase, and
\* step_count equals the number of increments executed: none lost, none doubled.
C10_CountsDistinctAndIncreasing ==
    /\ \A i, j \in DOMAIN okLog : (i < j) => okLog[i] < okLog[j]
    /\ \A i \in DOMAIN okLog : okLog[i] <= state.step_count
    /\ state.step_count = incs

C10_Witness ==
    \E t, u \in Threads :
        /\ t # u
        /\ okLog = <<1, 2>>
        /\ AtRet(t, "step")
        /\ pc[u] = "r_lock"

\* C13: reset and step never raise past their boundary: no call leaves with the
\* exception of an engine round trip (probe, clock samples, ownership check,
\* forward, clock refresh); each such failure is a returned observation.
C13_NoEngineExceptionEscapes ==
    \A t \in Threads :
        HasRaised(t) => Val(ret[t]).raise \notin ExcMsgs

\* The step running in t has read the reply of its forward, and its
\* clock-refresh probe then failed: the request raised, or gave no reading.
RefreshFailed(t) ==
    /\ AtRet(t, "step")
    /\ ~IsNone(loc[t].result)
    /\ (HasRaised(t) \/ IsNone(loc[t].t))

\* C14: after a successful forward, a failed clock-refresh probe (no reading,
\* or the probe's request raising) does not fail the step: it returns ok=true
\* with step_count incremented and last_sim_time as it was before the call.
C14_RefreshFailureIsSilent ==
    \A t \in Threads :
        RefreshFailed(t) =>
            /\ HasObs(t)
            /\ ObsOf(t).ok
            /\ ObsOf(t).step_count = loc[t].pre.step_count + 1
            /\ state.step_count = loc[t].pre.step_count + 1
            /\ state.last_sim_time = loc[t].pre.last_sim_time

\* C16: when reset leaves, the session's episode_id is exactly the supplied
\* episode_id if the caller supplied one (any string), else a generated
\* identifier, and a returned observation carries the assigned episode_id.
C16_SuppliedEpisodeIdIsUsed ==
    \A t \in Threads :
        AtRet(t, "reset") =>
            /\ IF ~IsNone(loc[t].episode_id)
               THEN state.episode_id = loc[t].episode_id
               ELSE \E u \in UUIDs : state.episode_id = Some(u)
            /\ HasObs(t) => ObsOf(t).episode_id = state.episode_id

\* The reachability probe of the reset running in t raised.
ProbeFailed(t) == AtRet(t, "reset") /\ IsNone(loc[t].ping)

\* C17: when reset's reachability probe fails, reset returns ok=false with the
\* reachability error, and last_sim_time and stepper_detected are what they
\* were before the call.
C17_FailedProbeKeepsLiveness ==
    \A t \in Threads :
        ProbeFailed(t) =>
            /\ HasObs(t)
            /\ ~ObsOf(t).ok
            /\ \E m \in ExcMsgs :
                  ObsOf(t).error = Some(<<[lit |-> "rl_interface_unreachable: "],
                                          [exc |-> m]>>)
            /\ state.last_sim_time = loc[t].pre.last_sim_time
            /\ state.stepper_detected = loc[t].pre.stepper_detected

C17_Witness ==
    \E t \in Threads :
        /\ ProbeFailed(t)
        /\ loc[t].pre.stepper_detected = Some(TRUE)
        /\ loc[t].pre.last_sim_time = Some(1)

\* The clock requests among the requests issued by t.
ClockRequests(t) == SelectSeq(sent[t], LAMBDA r : r = ReqSimTime)

CmdFacts ==
    [c \in Cmds \cup {ActionDictOf(a).cmd : a \in {d \in StepActions : "cmd" \in DOMAIN d.dict}}
        |-> [walk |-> WalkCheck(c), owned |-> OwnedIds(c), exist |-> MustExistIds(c)]]

\* The ownership check of the step running in t: its ids, and the states of
\* the engine's entities in which the script gives the reply that was read.
CheckedOwned(t) == CmdFacts[Val(loc[t].action).cmd].owned

CheckedExist(t) == CmdFacts[Val(loc[t].action).cmd].exist

WorldsOfReply(t) ==
    LET pid == Val(loc[t].action).player_id
        ownedIds == CheckedOwned(t)
        existIds == CheckedExist(t)
        out == Val(loc[t].out)
    IN {w \in [Range(ownedIds) \cup Range(existIds) -> EntStatus] :
           ValidateJS(pid, ownedIds, existIds, w) = out}

\* Entity e is a live actor.
Live(e) == e.own \/ e.other

\* The step running in t left at the ownership check with the invalid-ids error.
InvalidIds(t) ==
    /\ HasObs(t)
    /\ ~ObsOf(t).ok
    /\ ~PushSent(t)
    /\ Head(Val(ObsOf(t).error)) = [lit |-> "invalid_entity_ids: "]

\* The step running in t has just read the reply of the ownership check: it is
\* about to forward, or it leaves without having forwarded.
AtVerdict(t) ==
    /\ loc[t].call = "step"
    /\ ~IsNone(loc[t].out)
    /\ pc[t] = "s_push" \/ (pc[t] = "ret" /\ ~PushSent(t))

\* C19: when the engine evaluated the ownership check (at least one id was
\* collected), the validator passes (step goes on to the forward) exactly when
\* every must-be-owned id is a live actor owned by player_id and every
\* must-exist id is a live actor; otherwise step leaves with the invalid-ids
\* error, which lists every non-existent id as missing and every owned id of
\* another owner as wrongOwner with that owner.
C19_ValidatorPassesExactlyWhenIdsResolve ==
    \A t \in Threads :
        AtVerdict(t) =>
            LET pid == Val(loc[t].action).player_id
                owned == Range(CheckedOwned(t))
                exist == Range(CheckedExist(t))
            IN \A w \in WorldsOfReply(t) :
                LET good == /\ \A i \in owned : Live(w[i]) /\ w[i].own /\ w[i].owner = pid
                            /\ \A i \in exist : Live(w[i])
                IN /\ owned \cup exist # {}
                   /\ good <=> (pc[t] = "s_push")
                   /\ ~good =>
                        /\ InvalidIds(t)
                        /\ \A i \in owned \cup exist :
                              ~Live(w[i]) => Names(Val(ObsOf(t).error), "missing", JNum(i))
                        /\ \A i \in owned :
                              (w[i].own /\ w[i].owner # pid) =>
                                  Names(Val(ObsOf(t).error), "wrongOwner",
                                        JDict([id |-> JNum(i), owner |-> JNum(w[i].owner)]))

C19_Witness ==
    \E t \in Threads :
        /\ InvalidIds(t)
        /\ Val(loc[t].action).cmd = CmdGather
        /\ \E w \in WorldsOfReply(t) :
              /\ ~Live(w[3])
              /\ w[1].owner = 1
              /\ w[2].owner = 2

\* The request of the ownership check of the step running in t raised.
ValidatorRaised(t) ==
    /\ AtRet(t, "step")
    /\ IsNone(loc[t].out)
    /\ Len(sent[t]) = 1
    /\ ~IsNone(loc[t].action)
    /\ Val(loc[t].action).op = "push_command"
    /\ sent[t][1] = ReqValidate(Val(loc[t].action).player_id, CheckedOwned(t),
                                CheckedExist(t))

\* C20: when the request of the ownership check raises, step returns ok=false
\* with the error "validation_failed: " followed by the exception's message
\* (not the invalid-ids error), no push_command is issued and step_count is
\* unchanged.
C20_ValidatorFailureIsValidationFailed ==
    \A t \in Threads :
        ValidatorRaised(t) =>
            /\ HasObs(t)
            /\ ~ObsOf(t).ok
            /\ \E m \in ExcMsgs :
                  ObsOf(t).error = Some(<<[lit |-> "validation_failed: "], [exc |-> m]>>)
            /\ ~InvalidIds(t)
            /\ ~PushSent(t)
            /\ state.step_count = loc[t].pre.step_count

C20_Witness ==
    \E t \in Threads :
        /\ ValidatorRaised(t)
        /\ ObsOf(t).error = Some(<<[lit |-> "validation_failed: "], [exc |-> "timed out"]>>)
        /\ state.step_count = 1

\* The i-th frame read on the connection has been handled to the end.
Handled(i) == i < Len(ws.hist) \/ ws.pc \in {"recv", "closed"}

\* C11: the receive loop of the stream ends only by a 'close' message (or by
\* the client going away): no other message, whatever its content, ends it;
\* an exception while a message is handled is answered and the loop goes on.
C11_OnlyCloseEndsTheLoop ==
    ws.pc = "closed" => ws.end \in {"close", "disconnect"}

\* C12: a text frame that is not valid JSON gets exactly one reply, the error
\* frame with code INVALID_JSON; it does not end the loop; and a 'state'
\* message read next on the connection gets exactly one reply, of type state.
C12_InvalidJsonIsAnsweredAndSurvived ==
    \A i \in DOMAIN ws.hist :
        (ws.hist[i].frame = FrameGarbage) =>
            /\ Len(ws.hist[i].replies) <= 1
            /\ \A k \in DOMAIN ws.hist[i].replies :
                  /\ ws.hist[i].replies[k].type = "error"
                  /\ ws.hist[i].replies[k].data.code = "INVALID_JSON"
            /\ Handled(i) => Len(ws.hist[i].replies) = 1
            /\ (i = Len(ws.hist)) => ws.end \in {"", "disconnect"}
            /\ (i < Len(ws.hist) /\ ws.hist[i + 1].frame = FrameState /\ Handled(i + 1)) =>
                  /\ Len(ws.hist[i + 1].replies) = 1
                  /\ ws.hist[i + 1].replies[1].type = "state"
                  /\ (i + 1 = Len(ws.hist)) => ws.hist[i + 1].replies[1] = StateFrame(state)

C12_Witness ==
    /\ Len(ws.hist) = 2
    /\ ws.hist[1].frame = FrameGarbage
    /\ ws.hist[2].frame = FrameState
    /\ ws.pc = "recv"
    /\ ws.hist[2].replies # <<>>

\* The call of t ends as a failure: an exception, or an ok=false observation.
FailedCall(t) == HasRaised(t) \/ (HasObs(t) /\ ~ObsOf(t).ok)

Waiting(t) == pc[t] \in {"r_lock", "s_lock"}

EvaluateStep(t) ==
    /\ loc[t].call = "step"
    /\ ~IsNone(loc[t].action)
    /\ Val(loc[t].action).op = "evaluate"

\* C21: a step with an evaluate action never enters the command validator; once
\* it has issued any engine request, the first one is the evaluate of the
\* action's own expression, and none of its requests is the ownership check.
C21_EvaluateSkipsValidator ==
    \A t \in Threads :
        EvaluateStep(t) =>
            /\ pc[t] \notin {"s_validate", "s_val_wait", "s_push"}
            /\ (pc[t] # "s_eval" => sent[t] # <<>>)
            /\ sent[t] # <<>> => sent[t][1] = ReqEvaluate(Val(loc[t].action).code)
            /\ \A i \in DOMAIN sent[t] : sent[t][i].code # <<"validate_script">>

\* An evaluate step waits for the engine's answer to its expression.
C21_Witness ==
    \E t \in Threads :
        /\ EvaluateStep(t)
        /\ pc[t] = "s_fwd_wait"
        /\ sent[t] = <<ReqEvaluate(Code)>>

\* C22: every engine request of a reset or a step goes over the evaluate route,
\* never over the tick-advancing step route; a request made by push_command is
\* the forward of a push_command action, built from its player and command, and
\* every other request is an evaluate.
C22_NoTickAdvancingRequest ==
    \A t \in Threads :
        \A i \in DOMAIN sent[t] :
            LET r == sent[t][i] IN
            /\ r.route = "evaluate"
            /\ r.method \in {"evaluate", "push_command"}
            /\ r.method = "push_command" =>
                   /\ loc[t].call = "step"
                   /\ ~IsNone(loc[t].action)
                   /\ Val(loc[t].action).op = "push_command"
                   /\ r = ReqPush(Val(loc[t].action).player_id, Val(loc[t].action).cmd)
            /\ (pc[t] = "s_fwd_wait" /\ i = Len(sent[t])
                /\ Val(loc[t].action).op = "push_command") => r.method = "push_command"

\* A step has checked ownership, forwarded its push_command action and asked
\* for the clock: three requests, the second made by push_command.
C22_Witness ==
    \E t \in Threads :
        /\ pc[t] = "s_time_wait"
        /\ Len(sent[t]) = 3
        /\ sent[t][1].code = <<"validate_script">>
        /\ sent[t][2].method = "push_command"
        /\ sent[t][3] = ReqSimTime

\* Text frame f is a JSON object whose type is none of reset, step, state,
\* close (a missing type reads as null).
UnknownTypeFrames ==
    {f \in Frames :
        LET r == JsonLoads(f) IN
        /\ r.ok
        /\ IsDict(r.val)
        /\ Get(r.val.dict, "type") \notin {JStr(<<"reset">>), JStr(<<"step">>),
                                           JStr(<<"state">>), JStr(<<"close">>)}}

UnknownTypeFrame(f) == f \in UnknownTypeFrames

\* C23: a frame that is a JSON object of unknown or missing type gets exactly
\* one reply, the error frame with code UNKNOWN_TYPE; while it is handled no
\* session method is entered; and the loop stays open (it ends afterwards only
\* by the client going away).
C23_UnknownTypeIsAnswered ==
    \A i \in DOMAIN ws.hist :
        UnknownTypeFrame(ws.hist[i].frame) =>
            /\ Len(ws.hist[i].replies) <= 1
            /\ \A k \in DOMAIN ws.hist[i].replies :
                  /\ ws.hist[i].replies[k].type = "error"
                  /\ ws.hist[i].replies[k].data.code = "UNKNOWN_TYPE"
            /\ Handled(i) => Len(ws.hist[i].replies) = 1
            /\ (i = Len(ws.hist)) =>
                  /\ ws.pc # "call"
                  /\ pc[WsTask] = "idle"
                  /\ sent[WsTask] = <<>>
                  /\ ws.end \in {"", "disconnect"}
                  /\ (ws.pc = "closed") => Handled(i) /\ ws.end = "disconnect"

\* A frame without a type has been answered and the next frame is being read
\* on the same connection.
C23_Witness ==
    /\ Len(ws.hist) = 2
    /\ ws.hist[1].frame = FrameNoType
    /\ Len(ws.hist[1].replies) = 1
    /\ ws.hist[1].replies[1].data.code = "UNKNOWN_TYPE"
    /\ ws.hist[2].frame = FrameBogus
    /\ ws.pc = "recv"
    /\ ws.end = ""

\* C24: a 'close' message gets no reply frame; once it is handled the loop has
\* ended by the break and the channel is closed; it is the last frame read on
\* the connection, and nothing of a session call is in progress afterwards.
C24_CloseEndsTheStream ==
    \A i \in DOMAIN ws.hist :
        (ws.hist[i].frame = FrameClose) =>
            /\ ws.hist[i].replies = <<>>
            /\ i = Len(ws.hist)
            /\ pc[WsTask] = "idle"
            /\ ws.end \in {"", "close"}
            /\ Handled(i) => (ws.pc = "closed" /\ ws.end = "close")

\* A frame was answered, then 'close' was read and the channel is closed.
C24_Witness ==
    /\ Len(ws.hist) = 2
    /\ ws.hist[1].frame = FrameState
    /\ Len(ws.hist[1].replies) = 1
    /\ ws.hist[2].frame = FrameClose
    /\ ws.pc = "closed"
    /\ ws.end = "close"

\* The engine requests of a reset, in order; none of them mentions a seed.
ResetRequests == <<ReqEvaluate(<<"1+1">>), ReqSimTime, ReqSimTime>>

\* Number of requests a reset has issued when it stands at position p (at
\* "ret" it is the number issued before the call ended).
ResetRequestCount(t) ==
    CASE pc[t] \in {"r_episode", "r_count", "r_ping"} -> 0
      [] pc[t] \in {"r_ping_wait", "r_t1"} -> 1
      [] pc[t] \in {"r_t1_wait", "r_t2"} -> 2
      [] pc[t] \in {"r_t2_wait", "r_last", "r_stepper"} -> 3
      [] OTHER -> Len(sent[t])

\* The session state during the reset running in t, written from what the
\* reset was started on (pre), its episode_id argument and the engine's
\* answers, without its seed.
SeedFreeState(t) ==
    LET l == loc[t]
        done == pc[t] = "ret" /\ HasObs(t) /\ ObsOf(t).ok
        last == IF ~IsNone(l.t2) THEN l.t2 ELSE l.t1
    IN [episode_id |-> IF pc[t] = "r_episode" THEN state.episode_id
                       ELSE Some(EpisodeOr(l.episode_id, "u1")),
        step_count |-> IF pc[t] \in {"r_episode", "r_count"} THEN state.step_count
                       ELSE 0,
        last_sim_time |-> IF pc[t] = "r_stepper" \/ done THEN last
                          ELSE l.pre.last_sim_time,
        stepper_detected |-> IF done THEN StepperDetected(l.t1, l.t2)
                             ELSE l.pre.stepper_detected]

\* C25: the requests a reset sends are a prefix of the fixed sequence (probe,
\* clock, clock) whatever its seed; the session state it produces is
\* determined by its other inputs; and of what it returns only result.seed
\* shows the seed. Two resets that differ only in seed therefore send the same
\* requests and leave the same state.
C25_SeedIsNotForwarded ==
    \A t \in Threads :
        (loc[t].call = "reset") =>
            /\ Len(sent[t]) = ResetRequestCount(t)
            /\ Len(sent[t]) <= 3
            /\ sent[t] = SubSeq(ResetRequests, 1, Len(sent[t]))
            /\ state = SeedFreeState(t)
            /\ HasObs(t) =>
                  ObsOf(t) =
                      IF ObsOf(t).ok
                      THEN Observation(TRUE,
                                       JDict([ping |-> Val(loc[t].ping),
                                              seed |-> SeedJson(loc[t].seed)]),
                                       None, state.episode_id, 0,
                                       state.stepper_detected, state.last_sim_time)
                      ELSE Observation(FALSE, JNull, ObsOf(t).error,
                                       state.episode_id, 0, None, None)

\* A reset with seed 7 returns ok after its three requests; the seed is in the
\* result.
C25_Witness ==
    \E t \in Threads :
        /\ AtRet(t, "reset")
        /\ loc[t].seed = Some(7)
        /\ HasObs(t)
        /\ ObsOf(t).ok
        /\ ObsOf(t).result.dict.seed = JNum(7)
        /\ sent[t] = ResetRequests

\* The step running in t decoded a push_command action and its validator has
\* either sent its request or finished.
ValidatorActed(t) ==
    /\ loc[t].call = "step"
    /\ ~IsNone(loc[t].action)
    /\ Val(loc[t].action).op = "push_command"
    /\ pc[t] # "s_validate"

\* The ownership checks among the requests of t.
ValidateRequests(t) == {i \in DOMAIN sent[t] : "ownedIds" \in DOMAIN sent[t][i]}

\* The validator passed: the step went on to forward the command.
ValidatorPassed(t) == pc[t] = "s_push" \/ PushSent(t)

\* C28 as stated: with both id sets empty the validator asks the engine nothing
\* and passes; otherwise it asks exactly once, with all collected ids.
C28_RoundTripIffIdsCollected ==
    \A t \in Threads :
        ValidatorActed(t) =>
            LET a == Val(loc[t].action)
                f == CmdFacts[a.cmd]
            IN IF f.owned = <<>> /\ f.exist = <<>>
               THEN ValidateRequests(t) = {} /\ ValidatorPassed(t)
               ELSE /\ ValidateRequests(t) = {1}
                    /\ sent[t][1] = ReqValidate(a.player_id, f.owned, f.exist)

\* C28 (amended): a command the walk check rejects is answered without asking
\* the engine, whatever ids it carries; of the other commands, one with both id
\* sets empty passes without a request, and any other makes exactly one
\* request, the first of the call, carrying all owned and all must-exist ids.
C28_RoundTripUnlessWalkRejected ==
    \A t \in Threads :
        ValidatorActed(t) =>
            LET a == Val(loc[t].action)
                f == CmdFacts[a.cmd]
            IN IF ~IsNone(f.walk)
               THEN /\ sent[t] = <<>>
                    /\ pc[t] = "ret"
                    /\ ObsOf(t).error = f.walk
               ELSE IF f.owned = <<>> /\ f.exist = <<>>
               THEN ValidateRequests(t) = {} /\ ValidatorPassed(t)
               ELSE /\ ValidateRequests(t) = {1}
                    /\ sent[t][1] = ReqValidate(a.player_id, f.owned, f.exist)

\* A gather with two owned ids and a target was checked by one request naming
\* all three, then forwarded.
C28_Witness ==
    \E t \in Threads :
        /\ ValidatorActed(t)
        /\ Val(loc[t].action).cmd = CmdGather
        /\ pc[t] = "s_time_wait"
        /\ ValidateRequests(t) = {1}
        /\ sent[t][1] = ReqValidate(1, <<1, 2>>, <<3>>)
        /\ PushSent(t)

\* _normalize_eval_result has been applied to the argument (and, for Twice, to
\* its own result).
Normalized == fn.op = "normalize" /\ fn.out # None

NormalizedTwice == Normalized /\ fn.again # None

\* C26: normalizing the result of a normalization gives that result again,
\* whether the value is a string or not.
C26_NormalizeIdempotent ==
    NormalizedTwice => Val(fn.again) = Val(fn.out)

\* A string that was decoded to a list, and the list normalized again.
C26_Witness ==
    /\ NormalizedTwice
    /\ Val(fn.arg) = JStr(<<Blank, "[", "]">>)
    /\ Val(fn.out) = JList(<<>>)

\* The stripped string s starts and ends with matching object or array
\* brackets.
Bracketed(s) ==
    /\ s # <<>>
    /\ \/ (s[1] = "{" /\ s[Len(s)] = "}")
       \/ (s[1] = "[" /\ s[Len(s)] = "]")

\* C30: the result of normalization differs from the value only for a string
\* whose trimmed content is bracketed and parses as JSON, and it is then the
\* parsed object or array; a bracketed string that does not parse, any other
\* string and any value that is no string come back unchanged.
C30_SecondDecodeOnlyWhenBracketed ==
    Normalized =>
        LET v == Val(fn.arg)
            o == Val(fn.out)
        IN IF IsStr(v) /\ Bracketed(Strip(v.str)) /\ JsonLoads(Strip(v.str)).ok
           THEN /\ o = JsonLoads(Strip(v.str)).val
                /\ IsList(o) \/ IsDict(o)
           ELSE o = v

\* A bracketed string that does not parse came back as it was.
C30_Witness ==
    /\ Normalized
    /\ Val(fn.arg) = JStr(<<"{", "1", "}">>)
    /\ Val(fn.out) = Val(fn.arg)

\* The id collection has been applied to the command.
Collected == fn.op = "collect" /\ fn.out # None

\* The ids a value denotes: an integer itself, a string of decimal digits the
\* number it writes; a boolean and anything else none.
DenotedIds(v) ==
    IF IsNum(v) THEN {v.num}
    ELSE IF IsStr(v) /\ v.str # <<>> /\ \A i \in 1..Len(v.str) : v.str[i] \in Digits
    THEN {StrToInt(v.str)}
    ELSE {}

ListIds(v) ==
    IF IsList(v) THEN UNION {DenotedIds(v.list[i]) : i \in DOMAIN v.list} ELSE {}

\* The distinct positive ids present in the must-be-owned fields and in the
\* must-exist field of a command.
PresentOwned(cmd) ==
    {i \in ListIds(Get(cmd, "entities")) \cup DenotedIds(Get(cmd, "entity"))
             \cup DenotedIds(Get(cmd, "garrisonHolder"))
             \cup ListIds(Get(cmd, "garrisonHolders")) : i > 0}

PresentExist(cmd) == {i \in DenotedIds(Get(cmd, "target")) : i > 0}

\* List l holds exactly the members of S, each once.
ListsExactly(l, S) == Range(l) = S /\ Len(l) = Cardinality(S)

\* Some value of the command is a digit string int() does not read.
HasUnreadableDigits(cmd) ==
    \E k \in DOMAIN cmd :
        \/ IsStr(cmd[k]) /\ "sup2" \in Range(cmd[k].str)
        \/ IsList(cmd[k]) /\ \E i \in DOMAIN cmd[k].list :
                                IsStr(cmd[k].list[i]) /\ "sup2" \in Range(cmd[k].list[i].str)

\* C29: for every command the collection yields the two id lists, and they
\* hold exactly the distinct positive ids present in the conventional fields:
\* integers and digit strings are read, booleans, zero and negative values are
\* dropped, and an id met twice is listed once.
C29_CollectsDistinctPositiveIds ==
    Collected =>
        LET o == Val(fn.out) IN
        /\ "raise" \notin DOMAIN o
        /\ ListsExactly(o.owned, PresentOwned(Val(fn.arg)))
        /\ ListsExactly(o.exist, PresentExist(Val(fn.arg)))

\* The same for the commands whose digit strings are all decimal.
C29_DecimalInputsCollected ==
    (Collected /\ ~HasUnreadableDigits(Val(fn.arg))) =>
        LET o == Val(fn.out) IN
        /\ "raise" \notin DOMAIN o
        /\ ListsExactly(o.owned, PresentOwned(Val(fn.arg)))
        /\ ListsExactly(o.exist, PresentExist(Val(fn.arg)))

\* A list with an id given twice, as integer and as string, was collected.
C29_DecimalWitness ==
    /\ Collected
    /\ Val(fn.arg) = [entities |-> JList(<<JNum(2), JStr(<<"0", "2">>)>>)]
    /\ Val(fn.out) = [owned |-> <<2>>, exist |-> <<>>]

\* An action has been encoded and its encoding decoded.
RoundTripped == fn.op = "codec" /\ fn.out # None /\ fn.again # None

FactsOf(cmd) == CmdFacts[cmd]

\* The engine requests the step running in t is to make, in order: the
\* ownership check when ids were collected, the forward, the clock refresh.
StepRequests(t) ==
    LET a == Val(loc[t].action) IN
    IF a.op = "push_command"
    THEN LET f == FactsOf(a.cmd) IN
         (IF f.owned = <<>> /\ f.exist = <<>> THEN <<>>
          ELSE <<ReqValidate(a.player_id, f.owned, f.exist)>>)
             \o <<ReqPush(a.player_id, a.cmd), ReqSimTime>>
    ELSE <<ReqEvaluate(a.code), ReqSimTime>>

\* Sequence s is an initial part of sequence p.
IsPrefix(s, p) == Len(s) <= Len(p) /\ s = SubSeq(p, 1, Len(s))

\* The call of t has ended on the exception of its last engine request.
LastRequestFailed(t) ==
    /\ pc[t] = "ret"
    /\ sent[t] # <<>>
    /\ \/ HasRaised(t) /\ Val(ret[t]).raise \in ExcMsgs
       \/ /\ HasObs(t)
          /\ ~ObsOf(t).ok
          /\ \E m \in ExcMsgs : ObsOf(t).error \in {Some(ErrStr(m)),
                                                   Some(ErrValidationFailed(m)),
                                                   Some(ErrUnreachable(m))}

\* C34: a call sends its engine requests once each and in the order of its
\* plan (reset: probe, clock, clock; step: ownership check, forward, clock),
\* so never more than three; a call that ended on the exception of a request
\* has sent nothing after it and has not sent it again.
C34_NoRetryAtMostThreeRequests ==
    \A t \in Threads :
        /\ Len(sent[t]) <= 3
        /\ (loc[t].call = "reset") => IsPrefix(sent[t], ResetRequests)
        /\ (loc[t].call = "step" /\ ~IsNone(loc[t].action)) =>
               IsPrefix(sent[t], StepRequests(t))
        /\ (loc[t].call = "step" /\ IsNone(loc[t].action)) => sent[t] = <<>>
        /\ (LastRequestFailed(t) /\ loc[t].call = "step" /\ ~IsNone(loc[t].exc)) =>
               /\ sent[t][Len(sent[t])] = ForwardReq(Val(loc[t].action))
               /\ Cardinality({i \in DOMAIN sent[t] :
                                  sent[t][i] = ForwardReq(Val(loc[t].action))}) = 1

\* The forward of a checked push_command raised: two requests were made, the
\* forward once, and the call is over.
C34_Witness ==
    \E t \in Threads :
        /\ LastRequestFailed(t)
        /\ ~IsNone(loc[t].exc)
        /\ Val(loc[t].action).op = "push_command"
        /\ Len(sent[t]) = 2

(***************************************************************************)
(* C37: the validator fails open.                                          *)
(***************************************************************************)
\* The ownership check of the step running in t was answered, and the
\* (normalized) answer is anything but a map with ok = false.
AnsweredNotRejecting(t) ==
    /\ loc[t].call = "step"
    /\ ~IsNone(loc[t].out)
    /\ ~(IsDict(Val(loc[t].out)) /\ Get(Val(loc[t].out).dict, "ok") = JBool(FALSE))

\* The answers of the ownership check that are not a verdict of the script:
\* null, and a map without an ok field.
Malformed(out) == IsNull(out) \/ (IsDict(out) /\ "ok" \notin DOMAIN out.dict)

\* C37: when the ownership-check round trip returns anything other than a map
\* with ok = false (null, a map without ok, a map with ok = true), validation
\* passes: the step goes on to the forward and the command is sent to the
\* engine, and the step never leaves with the validator's error.
C37_ValidatorFailsOpen ==
    \A t \in Threads :
        AnsweredNotRejecting(t) =>
            /\ pc[t] = "s_push" \/ PushSent(t)
            /\ pc[t] \notin {"s_validate", "s_val_wait"}
            /\ (pc[t] = "ret" /\ HasObs(t) /\ ~ObsOf(t).ok) =>
                   /\ PushSent(t)
                   /\ Head(Val(ObsOf(t).error)) # Lit("invalid_entity_ids: ")

C37_Witness ==
    \E t \in Threads :
        /\ AnsweredNotRejecting(t)
        /\ Malformed(Val(loc[t].out))
        /\ IsDict(Val(loc[t].out))
        /\ PushSent(t)
        /\ pc[t] = "ret"
        /\ HasObs(t)
        /\ ObsOf(t).ok

(***************************************************************************)
(* C38: the observation of a call against the session state at its return. *)
(***************************************************************************)
\* The observation of t shows the four fields of the session state (t still
\* holds the lock at "ret", so state is the state at the moment of return).
ReportsState(t) ==
    /\ ObsOf(t).episode_id = state.episode_id
    /\ ObsOf(t).step_count = state.step_count
    /\ ObsOf(t).stepper_detected = state.stepper_detected
    /\ ObsOf(t).sim_time = state.last_sim_time

\* The observation of a reset whose reachability probe failed.
FailedProbeObs(t) == loc[t].call = "reset" /\ HasObs(t) /\ ~ObsOf(t).ok

\* C38: every observation returned by reset or step reports episode_id,
\* step_count, stepper_detected and sim_time equal to the session state's
\* episode_id, step_count, stepper_detected and last_sim_time at the moment the
\* call returns.
C38_ObservationReportsState ==
    \A t \in Threads : HasObs(t) => ReportsState(t)

\* The same for every observation but that of a reset whose probe failed; that
\* one still reports the state's episode_id and step_count.
C38_AllButFailedProbe ==
    \A t \in Threads :
        HasObs(t) =>
            IF FailedProbeObs(t)
            THEN /\ ObsOf(t).episode_id = state.episode_id
                 /\ ObsOf(t).step_count = state.step_count
                 /\ ObsOf(t).stepper_detected = None
                 /\ ObsOf(t).sim_time = None
            ELSE ReportsState(t)

\* A reset whose probe failed on a session that holds a clock reading.
C38_FailedProbeOverReading ==
    \E t \in Threads : FailedProbeObs(t) /\ state.last_sim_time # None /\ lock = t

(***************************************************************************)
(* C39: what step may change of the session.                               *)
(***************************************************************************)
\* The step running in t holds the lock (pre is the state at its acquire).
InStep(t) == loc[t].call = "step" /\ lock = t

\* step leaves episode_id and stepper_detected as it found them.
StepKeepsEpisodeAndStepper(t) ==
    /\ state.episode_id = loc[t].pre.episode_id
    /\ state.stepper_detected = loc[t].pre.stepper_detected

\* The step running in t has ended on its success path.
EndedOk(t) == HasObs(t) /\ ObsOf(t).ok

\* C39: step never changes episode_id or stepper_detected; the only fields it
\* may change are step_count and last_sim_time, and a step that has ended with
\* either of them changed has ended on the success path.
C39_StepChangesOnlyOnSuccess ==
    \A t \in Threads :
        InStep(t) =>
            /\ StepKeepsEpisodeAndStepper(t)
            /\ (pc[t] = "ret" /\ state # loc[t].pre) => EndedOk(t)

\* The same with the one path left out on which the clock refresh raises after
\* step_count was written: there step_count is one more and nothing else moved.
C39_ButForEscapingRefresh ==
    \A t \in Threads :
        InStep(t) =>
            /\ StepKeepsEpisodeAndStepper(t)
            /\ (pc[t] = "ret" /\ state # loc[t].pre) =>
                   \/ EndedOk(t)
                   \/ /\ HasRaised(t)
                      /\ sent[t] # <<>>
                      /\ sent[t][Len(sent[t])] = ReqSimTime
                      /\ state = [loc[t].pre EXCEPT !.step_count = @ + 1]

\* A successful step over a session that a reset has filled.
C39_SuccessOverReset ==
    \E t \in Threads :
        /\ InStep(t)
        /\ EndedOk(t)
        /\ loc[t].pre.episode_id # None
        /\ loc[t].pre.stepper_detected # None
        /\ state.last_sim_time # loc[t].pre.last_sim_time

(***************************************************************************)
(* C40: step on a session that was never reset.                            *)
(***************************************************************************)
\* The step running in t found the session as __init__ left it and decoded its
\* action.
FreshStep(t) == InStep(t) /\ loc[t].pre = State0 /\ ~IsNone(loc[t].action)

\* C40: step is accepted before any reset.  On a freshly created session a
\* valid step issues the requests every step issues for its action (they do not
\* depend on the session state), an evaluate is forwarded at once, every
\* observation reports episode_id null, and when the forward is answered (and
\* the clock refresh does not raise) the step returns ok=true with step_count 1.
C40_StepBeforeReset ==
    \A t \in Threads :
        FreshStep(t) =>
            /\ IsPrefix(sent[t], StepRequests(t))
            /\ state.episode_id = None
            /\ HasObs(t) => ObsOf(t).episode_id = None
            /\ (pc[t] = "ret" /\ Val(loc[t].action).op = "evaluate") => Forwarded(t)
            /\ (pc[t] = "ret" /\ ~IsNone(loc[t].result) /\ ~HasRaised(t)) => EndedOk(t)
            /\ EndedOk(t) =>
                   /\ Forwarded(t)
                   /\ ObsOf(t).step_count = 1
                   /\ state.step_count = 1

C40_Witness ==
    \E t \in Threads :
        /\ FreshStep(t)
        /\ EndedOk(t)
        /\ PushSent(t)
        /\ Len(sent[t]) = 3
        /\ ObsOf(t).episode_id = None
        /\ ObsOf(t).step_count = 1

(***************************************************************************)
(* C31: one reply per message of the stream, before the next is read.      *)
(***************************************************************************)
\* The frames that are a 'close' message, and those that are JSON but no object.
CloseFrames ==
    {f \in Frames :
        LET r == JsonLoads(f) IN
        r.ok /\ IsDict(r.val) /\ Get(r.val.dict, "type") = JStr(<<"close">>)}

NonObjectFrames == {f \in Frames : LET r == JsonLoads(f) IN r.ok /\ ~IsDict(r.val)}

\* The i-th frame has at most one reply, and exactly one as soon as it has been
\* handled; a later frame is only read after that reply.
AnsweredOnce(i) ==
    /\ Len(ws.hist[i].replies) <= 1
    /\ Handled(i) => Len(ws.hist[i].replies) = 1

\* C31: on one stream connection each inbound message other than close is
\* answered by exactly one reply frame, sent before the next inbound message is
\* read (every earlier frame of the history has its reply when a frame is read).
C31_OneReplyBeforeNextRead ==
    \A i \in DOMAIN ws.hist :
        ws.hist[i].frame \notin CloseFrames => AnsweredOnce(i)

\* The same for every message that is a JSON object or is not JSON at all.
C31_ButForNonObjectJson ==
    \A i \in DOMAIN ws.hist :
        ws.hist[i].frame \notin CloseFrames \cup NonObjectFrames => AnsweredOnce(i)

\* Two messages read, the first a step whose observation was sent before the
\* second was read.
C31_RepliesInOrder ==
    /\ Len(ws.hist) = 2
    /\ ws.hist[1].frame = FrameStepEvaluate
    /\ Len(ws.hist[1].replies) = 1
    /\ ws.hist[1].replies[1].type = "observation"
    /\ ws.hist[2].frame = FrameState
    /\ Len(ws.hist[2].replies) = 1
    /\ ws.hist[2].replies[1].type = "state"

\* A message that is JSON but no object was read and the loop has ended.
C31_UnansweredMessage ==
    \E i \in DOMAIN ws.hist :
        /\ ws.hist[i].frame \in NonObjectFrames
        /\ ws.pc = "closed"
        /\ ws.hist[i].replies = <<>>

(***************************************************************************)
(* C36: a stream reset whose payload fails request validation.             *)
(***************************************************************************)
\* The 'reset' frames whose data is refused by ResetRequest.model_validate.
BadResetFrames ==
    {f \in Frames :
        LET r == JsonLoads(f) IN
        /\ r.ok
        /\ IsDict(r.val)
        /\ Get(r.val.dict, "type") = JStr(<<"reset">>)
        /\ ~ResetRequestValidate(DataOf(r.val.dict)).ok}

\* The state part of C36: a stream 'reset' message whose payload fails request
\* validation (a negative seed) is answered with the EXECUTION_ERROR frame without any
\* session call: while it is the message being handled no call is started, no
\* engine request is sent, and once it is handled the session state is the one
\* of the moment it was read.  (The frame read first finds the session as
\* __init__ left it; for later frames the state is compared over the steps of
\* the handler by C36_BadResetStepsKeepState.)
C36_BadResetIsRefusedUntouched ==
    \A i \in DOMAIN ws.hist :
        ws.hist[i].frame \in BadResetFrames =>
            /\ Len(ws.hist[i].replies) <= 1
            /\ \A k \in DOMAIN ws.hist[i].replies :
                  ws.hist[i].replies[k] = ExecutionError("ValidationError")
            /\ Handled(i) => Len(ws.hist[i].replies) = 1
            /\ (i = Len(ws.hist)) =>
                  /\ pc[WsTask] = "idle"
                  /\ lock = 0
                  /\ sent[WsTask] = <<>>
                  /\ ws.pc # "call"
                  /\ ws.end \in {"", "disconnect"}
                  /\ (i = 1) => state = State0

\* Every step taken while a refused reset is the message being handled leaves
\* the session state, the lock and the requests as they are.
C36_BadResetStepsKeepState ==
    [][(ws.hist # <<>> /\ ws.hist[Len(ws.hist)].frame \in BadResetFrames
        /\ ws.pc \in {"parse", "type", "handle"})
          => UNCHANGED <<state, lock, sent, pc>>]_vars

\* C36: a stream 'reset' message whose payload fails request validation is
\* answered with one EXECUTION_ERROR frame without any session call: no step of
\* its handling changes episode_id, step_count or the liveness fields, takes
\* the lock or sends an engine request.
C36_BadResetTouchesNothing ==
    []C36_BadResetIsRefusedUntouched /\ C36_BadResetStepsKeepState

C36_Witness ==
    /\ Len(ws.hist) = 2
    /\ ws.hist[1].frame = FrameReset
    /\ ws.hist[2].frame \in BadResetFrames
    /\ ws.hist[2].replies = <<ExecutionError("ValidationError")>>
    /\ ws.pc = "recv"
    /\ state.episode_id = Some("u1")
    /\ state.last_sim_time # None

(***************************************************************************)
(* C35: the timeout_s of a step.                                           *)
(***************************************************************************)
\* The error of a failed step observation, written from the action, the
\* ownership check's reply and the exception of the forward; m is the message
\* of a failed ownership check.  timeout_s does not occur in it.
StepErrorOf(t, m) ==
    LET l == loc[t]
        a == Val(l.action)
    IN IF a.op = "push_command" /\ CollectRaises(a.cmd) THEN ErrStr("ValueError")
       ELSE IF a.op = "push_command" /\ ~IsNone(WalkCheck(a.cmd)) THEN Val(WalkCheck(a.cmd))
       ELSE IF ~IsNone(l.exc) THEN ErrStr(Val(l.exc))
       ELSE IF ~IsNone(l.out) THEN Val(ValidateReply(Val(l.out)))
       ELSE ErrValidationFailed(m)

\* The observations step can return at its end, written without timeout_s.
TimeoutFreeObs(t) ==
    IF ~IsNone(loc[t].result)
    THEN {StepObservation(TRUE, Val(loc[t].result), None, state)}
    ELSE {StepObservation(FALSE, JNull, Some(StepErrorOf(t, m)), state) :
             m \in IF IsNone(loc[t].out) /\ IsNone(loc[t].exc) THEN ExcMsgs
                   ELSE {"timed out"}}

\* For each request of HttpRequests: whether it is a POST that passes its
\* request model.
ValidPosts ==
    {r \in HttpRequests :
        \/ r.route = "reset" /\ ResetRequestValidate(r.body).ok
        \/ r.route = "step" /\ StepRequestValidate(r.body).ok}

\* The step requests served so far that passed the request model.
ValidStepRequests ==
    {i \in DOMAIN http.hist :
        http.hist[i].req.route = "step" /\ http.hist[i].req \in ValidPosts}

\* C35: the timeout supplied with a step has no effect on its engine
\* interaction or outcome.  Whatever timeout_s POST /step hands to
\* session.step, the engine requests are a prefix of the sequence the action
\* alone determines, every request is the plain request of the client (no
\* timeout travels with it), the observation is the one written from the
\* action, the engine's answers and the session state, and the request is
\* answered with the envelope or with the exception of the call.  Two steps
\* that differ only in timeout_s therefore send the same requests and return
\* the same observation.
C35_TimeoutHasNoEffect ==
    /\ \A i \in ValidStepRequests :
          ~IsNone(http.hist[i].resp) => "refused" \notin DOMAIN Val(http.hist[i].resp)
    /\ \A t \in Threads :
          (loc[t].call = "step") =>
              /\ IsNone(loc[t].action) => sent[t] = <<>>
              /\ ~IsNone(loc[t].action) =>
                    /\ IsPrefix(sent[t], StepRequests(t))
                    /\ HasObs(t) => ObsOf(t) \in TimeoutFreeObs(t)

C35_Witness ==
    /\ loc[HttpTask].call = "step"
    /\ loc[HttpTask].timeout_s = Some(1)
    /\ HasObs(HttpTask)
    /\ ObsOf(HttpTask).ok
    /\ Val(loc[HttpTask].action).op = "evaluate"
    /\ Len(sent[HttpTask]) = 2

(***************************************************************************)
(* C32: the stream mirrors the request/response routes.                    *)
(***************************************************************************)
\* The message of the stream that corresponds to a POST: the same payload as
\* data under the type of the route.
StreamMsg(type, data) == [type |-> JStr(<<type>>), data |-> data]

\* What the handler of the stream hands to the session for that message, for
\* each request of HttpRequests.
StreamArgs ==
    [r \in HttpRequests |->
        IF r.route = "reset"
        THEN ResetRequestValidate(DataOf(StreamMsg("reset", r.body)))
        ELSE IF r.route = "step" /\ IsDict(Get(r.body.dict, "action"))
        THEN [ok |-> TRUE,
              arg |-> ActionDictOf(DataOf(StreamMsg("step", Get(r.body.dict, "action"))))]
        ELSE [ok |-> FALSE]]

StreamResetArgs(r) == StreamArgs[r]

StreamStepArg(r) == StreamArgs[r].arg

\* The i-th request was a POST that passed its request model.
ValidPost(i) == http.hist[i].req \in ValidPosts

StateRead == Val(http.hist[1].resp).body

\* C33: a state read returns values left by some completed operation (or by
\* the constructor), never a partially updated mix, even when it is issued
\* while a reset or step is in progress in another thread.  In particular the
\* episode_id it returns was in the state when some call had completed.
C33_StateReadIsConsistent ==
    ReadAnswered => StateRead.episode_id \in http.left

\* What does hold: the read returns the session state of the moment it is
\* served, verbatim.
C33_StateReadIsVerbatim ==
    ReadAnswered => StateRead = state

\* A read served between the two first assignments of a reset (episode_id
\* written, step_count not yet reset): the episode id of the reset in progress
\* with the step count of the episode before.
C33_MixedRead ==
    /\ ReadAnswered
    /\ StateRead.episode_id \notin http.left
    /\ StateRead.step_count > 0
    /\ \E t \in Threads : lock = t /\ loc[t].call = "reset" /\ pc[t] = "r_count"

====
